---- MODULE Spec2Model ----
(***************************************************************************)
(* A model of the travel-experience workflow of app/core/langgraph:        *)
(* the LLM gateway (llm_client.py), the JSON validator and repairer        *)
(* (output_validator.py), the Classification node (classification.py) and  *)
(* the Extraction node (extraction.py, file_handler.py), the BasicInfo,     *)
(* Plan and Eval nodes (basic_info.py, plan_agent.py, eval.py) and the     *)
(* compiled graph with its Combine node (workflow.py, globalstate.py).     *)
(*                                                                         *)
(* Where a file holds two definitions of the same name (llm_client.py,     *)
(* output_validator.py), Python binds the name to the later one, and the   *)
(* later one is what is modelled.                                          *)
(***************************************************************************)
EXTENDS Integers, Sequences, FiniteSets, TLC

(***************************************************************************)
(* Python values.  Every value is a record of one shape: t is the type,    *)
(* s the text of a str (a sequence of lexical tokens), n the number of an  *)
(* int or the length of a list or dict.                                    *)
(***************************************************************************)
PyNone == [t |-> "none", s |-> <<>>, n |-> 0]

PyStr(s) == [t |-> "str", s |-> s, n |-> 0]

PyInt(n) == [t |-> "int", s |-> <<>>, n |-> n]

PyList(n) == [t |-> "list", s |-> <<>>, n |-> n]

PyDict(n) == [t |-> "dict", s |-> <<>>, n |-> n]

\* Python's truth value of a value: `if not text`, `raw_text or ""`.
Truthy(v) ==
    CASE v.t = "none" -> FALSE
      [] v.t = "str" -> v.s # <<>>
      [] OTHER -> v.n # 0

\* `v or ""`.
OrEmpty(v) == IF Truthy(v) THEN v ELSE PyStr(<<>>)

(***************************************************************************)
(* Texts are sequences of tokens.  FENCE is the three backticks, "json"    *)
(* the language tag, WS a run of whitespace, PROSE text that is no JSON;   *)
(* the remaining tokens are complete JSON documents.                       *)
(***************************************************************************)
JsonDocs == {"OBJ_M", "OBJ_U", "OBJ_X", "OBJ_E", "ARR", "NUM", "NULL"}

Tokens == {"FENCE", "json", "WS", "PROSE"} \cup JsonDocs

\* The bound on the length of the texts given to validate_json.
MaxTextLen == 4

RECURSIVE SeqsUpTo(_, _)
SeqsUpTo(S, k) ==
    IF k = 0 THEN {<<>>}
    ELSE LET shorter == SeqsUpTo(S, k - 1)
         IN shorter \cup {Append(q, x) : q \in {r \in shorter : Len(r) = k - 1}, x \in S}

Texts == SeqsUpTo(Tokens, MaxTextLen)

\* str.strip(): leading and trailing whitespace removed.
RECURSIVE LStrip(_)
LStrip(s) == IF s # <<>> /\ Head(s) = "WS" THEN LStrip(Tail(s)) ELSE s

RECURSIVE RStrip(_)
RStrip(s) ==
    IF s # <<>> /\ s[Len(s)] = "WS" THEN RStrip(SubSeq(s, 1, Len(s) - 1)) ELSE s

Strip(s) == RStrip(LStrip(s))

StartsWith(s, tok) == s # <<>> /\ Head(s) = tok

\* The index of the first FENCE of s at or after i, or 0.
RECURSIVE FindFence(_, _)
FindFence(s, i) ==
    IF i > Len(s) THEN 0
    ELSE IF s[i] = "FENCE" THEN i
    ELSE FindFence(s, i + 1)

\* s.split("```", 2)[1] for a text s that starts with a fence: what lies
\* between the first fence and the second (or the end of the text).
SplitPart1(s) ==
    LET j == FindFence(s, 2)
    IN IF j = 0 THEN SubSeq(s, 2, Len(s)) ELSE SubSeq(s, 2, j - 1)

\* json.loads of a str: leading and trailing whitespace is allowed around
\* exactly one document.  The result is [ok, obj].
JsonLoads(s) ==
    LET c == Strip(s)
    IN IF Len(c) = 1 /\ c[1] \in JsonDocs
       THEN [ok |-> TRUE, obj |-> c[1]]
       ELSE [ok |-> FALSE, obj |-> "none"]

\* _strip_code_fence(text): [raised, val].  str.strip of a value that is
\* no str raises AttributeError.
StripCodeFence(text) ==
    IF ~Truthy(text) THEN [raised |-> FALSE, val |-> text]
    ELSE IF text.t # "str" THEN [raised |-> TRUE, val |-> PyNone]
    ELSE LET s == Strip(text.s)
         IN IF StartsWith(s, "FENCE")
            THEN LET p == SplitPart1(s)
                 IN [raised |-> FALSE,
                     val |-> PyStr(IF StartsWith(p, "json") THEN Strip(Tail(p)) ELSE p)]
            ELSE [raised |-> FALSE, val |-> PyStr(s)]

\* (raw_text or "")[:500] in validate_json's except clause: slicing an int
\* or a dict raises.
PreviewRaises(raw_text) == OrEmpty(raw_text).t \in {"int", "dict"}

\* validate_json(raw_text): out is "ok" (with obj), "fail" or "raise".
ValidateJson(raw_text) ==
    LET cleaned == StripCodeFence(raw_text)
        parsed == IF cleaned.raised \/ cleaned.val.t # "str"
                  THEN [ok |-> FALSE, obj |-> "none"]
                  ELSE JsonLoads(cleaned.val.s)
    IN IF parsed.ok THEN [out |-> "ok", obj |-> parsed.obj]
       ELSE IF PreviewRaises(raw_text) THEN [out |-> "raise", obj |-> "none"]
       ELSE [out |-> "fail", obj |-> "none"]

(***************************************************************************)
(* What the underlying model can send back: the .content (or .text) of a   *)
(* response.  A call can also throw.                                       *)
(***************************************************************************)
ModelResponses ==
    {PyStr(<<"PROSE">>),
     PyStr(<<"OBJ_M">>),
     PyStr(<<"OBJ_U">>),
     PyStr(<<"OBJ_X">>),
     PyStr(<<"OBJ_E">>),
     PyStr(<<"FENCE", "json", "OBJ_M", "FENCE">>),
     PyStr(<<"OBJ_M", "FENCE">>),
     PyStr(<<"ARR">>),
     PyStr(<<"NUM">>),
     PyStr(<<>>),
     PyNone}

\* The largest max_retries a caller of the gateway passes in the model.
MaxRetriesBound == 5

\* The largest max_attempts given to repair_json_with_llm in the model.
MaxAttemptsBound == 3

\* The default of LLMClient.invoke's and generate_content's max_retries.
DefaultMaxRetries == 2

\* The ceiling of the gateway's exponential backoff, in seconds.
BackoffCap == 30

\* The sleep of LLMClient.invoke with backoff = False, in seconds.
FlatSleep == 1

Min(a, b) == IF a < b THEN a ELSE b

VARIABLES
    gw_pc,          \* "idle", "loop" (inside `while True`), "returned", "raised"
    gw_op,          \* "none", "invoke", "generate_content"
    gw_caller,      \* who awaits the gateway: "none", "harness", "repair", "classify"
    gw_max_retries,
    gw_backoff,
    gw_attempt,     \* the local `attempt`
    gw_calls,       \* underlying model calls made by this gateway call
    gw_sleeps,      \* the arguments of time.sleep, in order
    gw_result,      \* the content returned
    vj_pc,          \* "idle", "done": a direct call of validate_json
    vj_in,
    vj_out,
    rp_pc,          \* "idle", "loop", "wait" (inside llm_client.invoke), "done"
    rp_caller,      \* "none", "harness", "classify"
    rp_raw,         \* the parameter raw_text
    rp_max,         \* the parameter max_attempts
    rp_attempt,     \* the loop variable
    rp_invokes,     \* calls of llm_client.invoke made
    rp_prompt,      \* the text placed in the latest repair prompt
    rp_last,        \* the outcome of the latest attempt
    rp_everValid,   \* some attempt's response validated as JSON
    rp_result,      \* the dict returned
    cl_pc,          \* "idle", "invoke", "repair", "done", "raised"
    cl_first,       \* the model's response to the classification prompt
    cl_content,     \* the local `content` of classify
    cl_result,      \* what classify returns
    cl_error,       \* the exception execute raised
    cl_update,      \* the update execute returns
    state,          \* the workflow state the Extraction node is given
    env,            \* the world: whether the path exists, the URL's content type
    ex_pc,          \* "idle", "ready", "upload", "poll", "generate", "raw_invoke", "done", "raised"
    ex_error,       \* the exception the node raised
    ex_elapsed,     \* time.time() - start_time, in seconds
    ex_count,       \* how often each external operation was called
    ex_polls,       \* the passes of the polling loop made, with their outcome
    ex_update,      \* the update execute returns
    wf_pc,          \* "idle", "step" (inside a superstep), "end", "aborted"
    wf_schema,      \* how the conflict in globalstate.py was resolved
    wf_state,       \* the shared state: the value of every key the nodes use
    wf_status,      \* of each node: "idle", "pending", "running", "done", "raised"
    wf_pending,     \* of each node of the step that returned: its update
    wf_failed,      \* of each node of the step that raised: its exception
    wf_log,         \* the starts and the ends of the nodes, in order
    wf_error,       \* [node, error]: what workflow.invoke raised
    wf_uploads,     \* calls of files.upload made during the run
    wf_writes,      \* how often the key experience was written
    bi_pc,          \* "idle", "basic", "agent", "tags", "done", "raised"
    bi_turns,       \* calls of agent_executor.invoke made
    bi_basic,       \* the local `response`
    bi_final,       \* final_message.content of each call of the agent, in order
    bi_calls,       \* the calls of the model made by the node, in order
    bi_error,
    bi_update,      \* the update BasicInfoAgent.execute returns
    pl_pc,          \* "idle", "call", "done", "raised"
    pl_error,
    pl_update,      \* the update PlanAgent.execute returns
    cb_pc,          \* "idle", "done": a call of combine_node
    cb_in,          \* what combine_node read from the state
    cb_out,         \* the experience it built, or the exception
    ev_pc,          \* "idle", "upload", "poll", "generate", "text", "done"
    ev_handle,      \* the local uploaded_file
    ev_elapsed,     \* time.time() - start_time, in seconds
    ev_uploads,     \* calls of files.upload made by the node
    ev_update,      \* the evaluation execute returns
    ev_calls,       \* the kinds of the calls of a model made by the node, in order
    ev_cause,       \* the exception raised inside the node and the model's response
    va_pc,          \* "idle", "check", "done", "raised", "classification"
    va_cap,         \* self.MAX_ATTEMPTS
    va_read,        \* the local `validation_attempts`
    va_result,      \* the local `validation_result`
    va_error,
    va_update,      \* the update ValidationAgent.execute returns
    va_runs,        \* runs of Extraction in the loop with Validation; 0 outside it
    ap_pc,          \* "idle", "running", "returned": a request to an endpoint
    ap_response,    \* what the endpoint returned
    mf_pc,          \* per task of process_file: "idle", "task", "thread", "eval",
                    \* "finished", "returned"
    mf_name,        \* per task: file.filename
    mf_seen,        \* per task: what Extraction and Eval found at temp_file_path
    mf_tmp          \* per filename: the task whose upload the file in the temporary
                    \* directory holds, 0 when there is no such file

gwVars ==
    <<gw_pc, gw_op, gw_caller, gw_max_retries, gw_backoff, gw_attempt, gw_calls,
      gw_sleeps, gw_result>>

vjVars == <<vj_pc, vj_in, vj_out>>

rpVars ==
    <<rp_pc, rp_caller, rp_raw, rp_max, rp_attempt, rp_invokes, rp_prompt, rp_last,
      rp_everValid, rp_result>>

clVars == <<cl_pc, cl_first, cl_content, cl_result, cl_error, cl_update>>

exVars == <<state, env, ex_pc, ex_error, ex_elapsed, ex_count, ex_polls, ex_update>>

wfVars ==
    <<wf_pc, wf_schema, wf_state, wf_status, wf_pending, wf_failed, wf_log, wf_error,
      wf_uploads, wf_writes>>

biVars == <<bi_pc, bi_turns, bi_basic, bi_final, bi_calls, bi_error, bi_update>>

plVars == <<pl_pc, pl_error, pl_update>>

cbVars == <<cb_pc, cb_in, cb_out>>

evVars == <<ev_pc, ev_handle, ev_elapsed, ev_uploads, ev_update, ev_calls, ev_cause>>

vaVars == <<va_pc, va_cap, va_read, va_result, va_error, va_update, va_runs>>

apVars == <<ap_pc, ap_response>>

mfVars == <<mf_pc, mf_name, mf_seen, mf_tmp>>

\* The variables of the graph, of the nodes behind Classification and of the
\* endpoints.
nodeVars == <<wfVars, biVars, plVars, cbVars, evVars, vaVars, apVars, mfVars>>

\* The outcome of an attempt that ended in an exception, and of no attempt.
Threw == [t |-> "exception", s |-> <<>>, n |-> 0]

NoOutcome == [t |-> "nothing", s |-> <<>>, n |-> 0]

NoResult == [ok |-> FALSE, obj |-> "none", set |-> FALSE]

GwInit ==
    /\ gw_pc = "idle"
    /\ gw_op = "none"
    /\ gw_caller = "none"
    /\ gw_max_retries = 0
    /\ gw_backoff = TRUE
    /\ gw_attempt = 0
    /\ gw_calls = 0
    /\ gw_sleeps = <<>>
    /\ gw_result = PyNone

VjInit ==
    /\ vj_pc = "idle"
    /\ vj_in = PyNone
    /\ vj_out = [out |-> "none", obj |-> "none"]

RpInit ==
    /\ rp_pc = "idle"
    /\ rp_caller = "none"
    /\ rp_raw = PyNone
    /\ rp_max = 0
    /\ rp_attempt = 0
    /\ rp_invokes = 0
    /\ rp_prompt = PyNone
    /\ rp_last = NoOutcome
    /\ rp_everValid = FALSE
    /\ rp_result = NoResult

(***************************************************************************)
(* LLMClient (llm_client.py, the second class of the file).                *)
(***************************************************************************)
\* A gateway that gives up one attempt early (`attempt >= max_retries`).
GiveUpEarly(attempt, max_retries) == attempt >= max_retries

\* `if attempt > max_retries: raise`.
GiveUp(attempt, max_retries) == attempt > max_retries

\* The argument of time.sleep after failed attempt `attempt` of invoke.
InvokeSleep(attempt, backoff) ==
    IF backoff THEN Min(2 ^ attempt, BackoffCap) ELSE FlatSleep

\* The argument of time.sleep after failed attempt `attempt` of generate_content.
GenerateSleep(attempt) == Min(2 ^ attempt, BackoffCap)

\* The first lines of invoke / generate_content: attempt = 0, then the loop.
GatewayEnter(op, caller, max_retries, backoff) ==
    /\ gw_pc = "idle"
    /\ gw_pc' = "loop"
    /\ gw_op' = op
    /\ gw_caller' = caller
    /\ gw_max_retries' = max_retries
    /\ gw_backoff' = backoff
    /\ gw_attempt' = 0
    /\ gw_calls' = 0
    /\ gw_sleeps' = <<>>
    /\ gw_result' = PyNone

\* The caller has read the gateway's outcome.
GatewayLeave ==
    /\ gw_pc' = "idle"
    /\ gw_op' = "none"
    /\ gw_caller' = "none"
    /\ gw_max_retries' = 0
    /\ gw_backoff' = TRUE
    /\ gw_attempt' = 0
    /\ gw_calls' = 0
    /\ gw_sleeps' = <<>>
    /\ gw_result' = PyNone

\* One pass of invoke's `while True`: self.llm.invoke returns a response.
InvokeReturns ==
    /\ gw_pc = "loop" /\ gw_op = "invoke"
    /\ \E content \in ModelResponses :
        /\ gw_attempt' = gw_attempt + 1
        /\ gw_calls' = gw_calls + 1
        /\ gw_result' = content
        /\ gw_pc' = "returned"
    /\ UNCHANGED <<gw_op, gw_caller, gw_max_retries, gw_backoff, gw_sleeps>>
    /\ UNCHANGED <<vjVars, rpVars, clVars, exVars, nodeVars>>

\* One pass of invoke's `while True`: self.llm.invoke throws.
InvokeThrows ==
    /\ gw_pc = "loop" /\ gw_op = "invoke"
    /\ gw_attempt' = gw_attempt + 1
    /\ gw_calls' = gw_calls + 1
    /\ IF GiveUp(gw_attempt', gw_max_retries)
       THEN gw_pc' = "raised" /\ UNCHANGED gw_sleeps
       ELSE /\ gw_pc' = "loop"
            /\ gw_sleeps' = Append(gw_sleeps, InvokeSleep(gw_attempt', gw_backoff))
    /\ UNCHANGED <<gw_op, gw_caller, gw_max_retries, gw_backoff, gw_result>>
    /\ UNCHANGED <<vjVars, rpVars, clVars, exVars, nodeVars>>

\* One pass of generate_content's `while True`: the model returns.
GenerateReturns ==
    /\ gw_pc = "loop" /\ gw_op = "generate_content"
    /\ \E content \in ModelResponses :
        /\ gw_attempt' = gw_attempt + 1
        /\ gw_calls' = gw_calls + 1
        /\ gw_result' = content
        /\ gw_pc' = "returned"
    /\ UNCHANGED <<gw_op, gw_caller, gw_max_retries, gw_backoff, gw_sleeps>>
    /\ UNCHANGED <<vjVars, rpVars, clVars, exVars, nodeVars>>

\* One pass of generate_content's `while True`: the model throws.
GenerateThrows ==
    /\ gw_pc = "loop" /\ gw_op = "generate_content"
    /\ gw_attempt' = gw_attempt + 1
    /\ gw_calls' = gw_calls + 1
    /\ IF GiveUp(gw_attempt', gw_max_retries)
       THEN gw_pc' = "raised" /\ UNCHANGED gw_sleeps
       ELSE /\ gw_pc' = "loop"
            /\ gw_sleeps' = Append(gw_sleeps, GenerateSleep(gw_attempt'))
    /\ UNCHANGED <<gw_op, gw_caller, gw_max_retries, gw_backoff, gw_result>>
    /\ UNCHANGED <<vjVars, rpVars, clVars, exVars, nodeVars>>

(***************************************************************************)
(* repair_json_with_llm (output_validator.py, the second definition).      *)
(***************************************************************************)
\* A loop that runs one pass too many (`range(1, max_attempts + 2)`).
OneAttemptTooMany(attempt, max_attempts) == attempt < max_attempts + 1

\* `for attempt in range(1, max_attempts + 1)`: another pass follows.
MoreAttempts(attempt, max_attempts) == attempt < max_attempts

\* The text placed after "Response:\n" in the repair prompt: raw_text or "".
\* raw_text is the parameter: the loop never assigns it.
RepairPromptText(raw_text) == OrEmpty(raw_text)

\* The parameters llm_client.invoke gets from repair_json_with_llm and from
\* ClassificationAgent.classify: its defaults.
RepairEnter(caller, raw_text, max_attempts) ==
    /\ rp_pc = "idle"
    /\ rp_pc' = "loop"
    /\ rp_caller' = caller
    /\ rp_raw' = raw_text
    /\ rp_max' = max_attempts
    /\ rp_attempt' = 0
    /\ rp_invokes' = 0
    /\ rp_prompt' = PyNone
    /\ rp_last' = NoOutcome
    /\ rp_everValid' = FALSE
    /\ rp_result' = NoResult

RepairLeave ==
    /\ rp_pc' = "idle"
    /\ rp_caller' = "none"
    /\ rp_raw' = PyNone
    /\ rp_max' = 0
    /\ rp_attempt' = 0
    /\ rp_invokes' = 0
    /\ rp_prompt' = PyNone
    /\ rp_last' = NoOutcome
    /\ rp_everValid' = FALSE
    /\ rp_result' = NoResult

\* The head of a pass: the prompt is built and llm_client.invoke is called.
RepairAttempt ==
    /\ rp_pc = "loop"
    /\ MoreAttempts(rp_attempt, rp_max)
    /\ rp_attempt' = rp_attempt + 1
    /\ rp_prompt' = RepairPromptText(rp_raw)
    /\ rp_invokes' = rp_invokes + 1
    /\ rp_pc' = "wait"
    /\ GatewayEnter("invoke", "repair", DefaultMaxRetries, TRUE)
    /\ UNCHANGED <<rp_caller, rp_raw, rp_max, rp_last, rp_everValid, rp_result>>
    /\ UNCHANGED <<vjVars, clVars, exVars, nodeVars>>

\* The rest of a pass, once llm_client.invoke has returned or raised.
RepairAfterInvoke ==
    /\ rp_pc = "wait"
    /\ gw_caller = "repair"
    /\ gw_pc \in {"returned", "raised"}
    /\ LET content == gw_result
           parsed == ValidateJson(content)
           valid == gw_pc = "returned" /\ Truthy(content) /\ parsed.out = "ok"
       IN /\ rp_last' = IF gw_pc = "raised" THEN Threw ELSE content
          /\ rp_everValid' = (rp_everValid \/ (gw_pc = "returned" /\ parsed.out = "ok"))
          /\ IF valid
             THEN /\ rp_pc' = "done"
                  /\ rp_result' = [ok |-> TRUE, obj |-> parsed.obj, set |-> TRUE]
             ELSE /\ rp_pc' = "loop"
                  /\ UNCHANGED rp_result
    /\ GatewayLeave
    /\ UNCHANGED <<rp_caller, rp_raw, rp_max, rp_attempt, rp_invokes, rp_prompt>>
    /\ UNCHANGED <<vjVars, clVars, exVars, nodeVars>>

\* The loop is exhausted: {"ok": False, "error": "repair attempts failed"}.
RepairExhausted ==
    /\ rp_pc = "loop"
    /\ ~MoreAttempts(rp_attempt, rp_max)
    /\ rp_pc' = "done"
    /\ rp_result' = [ok |-> FALSE, obj |-> "none", set |-> TRUE]
    /\ UNCHANGED <<rp_caller, rp_raw, rp_max, rp_attempt, rp_invokes, rp_prompt,
                   rp_last, rp_everValid>>
    /\ UNCHANGED gwVars
    /\ UNCHANGED <<vjVars, clVars, exVars, nodeVars>>

(***************************************************************************)
(* ClassificationAgent (classification.py).                                *)
(***************************************************************************)
NoUpdate == [set |-> FALSE, classification_type |-> "", classification_reason |-> ""]

ClInit ==
    /\ cl_pc = "idle"
    /\ cl_first = NoOutcome
    /\ cl_content = PyNone
    /\ cl_result = "none"
    /\ cl_error = "none"
    /\ cl_update = NoUpdate

\* The dict of classify's `except:` clause.
Fallback == "FALLBACK"

\* The parsed values that are dicts; .get of any other value raises
\* AttributeError.
IsDict(obj) == obj \in {"OBJ_M", "OBJ_U", "OBJ_X", "OBJ_E", Fallback}

\* The keys and values of each dict.
DictItems(obj) ==
    CASE obj = "OBJ_M" -> [type |-> "managed", Explanation |-> "explained"]
      [] obj = "OBJ_U" -> [type |-> "unmanaged", Explanation |-> "explained"]
      [] obj = "OBJ_X" -> [type |-> "premium", Explanation |-> "explained"]
      [] obj = Fallback ->
            [classification_type |-> "unmanaged",
             confidence |-> "low",
             reason |-> "Unable to parse classification"]
      [] OTHER -> [k \in {} |-> ""]

\* dict.get(key, default).
DictGet(obj, key, default) ==
    IF key \in DOMAIN DictItems(obj) THEN DictItems(obj)[key] ELSE default

\* The key execute reads the explanation from.
ReasonKey == "Explanation"

\* s.replace("```json", "").replace("```", "").
RECURSIVE DropFences(_)
DropFences(s) ==
    IF s = <<>> THEN <<>>
    ELSE IF Head(s) = "FENCE"
         THEN IF StartsWith(Tail(s), "json") THEN DropFences(Tail(Tail(s)))
              ELSE DropFences(Tail(s))
         ELSE <<Head(s)>> \o DropFences(Tail(s))

\* The `else` branch of classify once repair has failed: json.loads of the
\* content without its fences; an exception leads to the `except:` dict.
BestEffort(content) ==
    LET p == JsonLoads(DropFences(content.s))
    IN IF p.ok THEN p.obj ELSE Fallback

\* execute, from `classification_result.get("type", "unmanaged")` on.
ClassifyFinish(result) ==
    /\ cl_result' = result
    /\ IF IsDict(result)
       THEN /\ cl_pc' = "done"
            /\ cl_error' = "none"
            /\ cl_update' =
                 [set |-> TRUE,
                  classification_type |-> DictGet(result, "type", "unmanaged"),
                  classification_reason |-> DictGet(result, ReasonKey, "")]
       ELSE /\ cl_pc' = "raised"
            /\ cl_error' = "AttributeError"
            /\ cl_update' = NoUpdate

\* execute calls classify, which calls self.llm_client.invoke.
ClassifyEnter ==
    /\ cl_pc = "idle"
    /\ cl_pc' = "invoke"
    /\ GatewayEnter("invoke", "classify", DefaultMaxRetries, TRUE)
    /\ UNCHANGED <<cl_first, cl_content, cl_result, cl_error, cl_update>>

\* classify after llm_client.invoke: the content is validated; valid JSON
\* ends classify, anything else goes to repair_json_with_llm with one attempt.
ClassifyAfterInvoke ==
    /\ cl_pc = "invoke"
    /\ gw_caller = "classify"
    /\ gw_pc \in {"returned", "raised"}
    /\ IF gw_pc = "raised"
       THEN /\ cl_pc' = "raised"
            /\ cl_error' = "model"
            /\ UNCHANGED <<cl_first, cl_content, cl_result, cl_update>>
            /\ UNCHANGED rpVars
       ELSE LET content == OrEmpty(gw_result)
            IN /\ cl_first' = gw_result
               /\ IF content.t # "str"
                  THEN \* .strip() raises inside the try
                       /\ cl_content' = content
                       /\ ClassifyFinish(Fallback)
                       /\ UNCHANGED rpVars
                  ELSE LET stripped == PyStr(Strip(content.s))
                           parsed == ValidateJson(stripped)
                       IN /\ cl_content' = stripped
                          /\ IF parsed.out = "ok"
                             THEN ClassifyFinish(parsed.obj) /\ UNCHANGED rpVars
                             ELSE /\ cl_pc' = "repair"
                                  /\ RepairEnter("classify", stripped, 1)
                                  /\ UNCHANGED <<cl_result, cl_error, cl_update>>
    /\ GatewayLeave
    /\ UNCHANGED <<vjVars, exVars, nodeVars>>

\* classify after repair_json_with_llm.
ClassifyAfterRepair ==
    /\ cl_pc = "repair"
    /\ rp_caller = "classify"
    /\ rp_pc = "done"
    /\ ClassifyFinish(IF rp_result.ok THEN rp_result.obj ELSE BestEffort(cl_content))
    /\ RepairLeave
    /\ UNCHANGED <<cl_first, cl_content>>
    /\ UNCHANGED gwVars
    /\ UNCHANGED <<vjVars, exVars, nodeVars>>

(***************************************************************************)
(* prepare_content_message (file_handler.py) and ExtractionAgent           *)
(* (extraction.py).                                                        *)
(***************************************************************************)
\* The ceiling of the upload polling loop and its interval, in seconds.
PollCeiling == 180

PollInterval == 2

\* The longest time one call of files.upload or files.get takes, in seconds.
MaxLatency == 1

\* What a HEAD request of the URL can yield: a content type, or a failure
\* (a status >= 400, a timeout, a network error, a type without "/").
ContentTypes ==
    {[main |-> "text", sub |-> "html"],
     [main |-> "image", sub |-> "png"],
     [main |-> "video", sub |-> "mp4"],
     [main |-> "audio", sub |-> "mpeg"],
     [main |-> "application", sub |-> "pdf"],
     [main |-> "application", sub |-> "msword"],
     [main |-> "application", sub |-> "zip"],
     [main |-> "HEAD failed", sub |-> ""]}

NoContentType == [main |-> "", sub |-> ""]

DocumentSubTypes ==
    {"pdf", "msword", "vnd.openxmlformats-officedocument.wordprocessingml.document"}

\* The parameters of prepare_content_message(content, file_url).
ContentMessageParams == {"content", "file_url"}

\* The arguments of the call in extract_from_input:
\* prepare_content_message(full_prompt, file_input, is_url=True).
ContentMessageArgs == {"content", "file_url", "is_url"}

\* A call of prepare_content_message with arguments `args` for a URL of
\* content type `ct`: [error, kind].  An argument that is no parameter is a
\* TypeError before the body runs.
PrepareContentMessage(args, ct) ==
    IF ~(args \subseteq ContentMessageParams)
    THEN [error |-> "TypeError", kind |-> "none"]
    ELSE IF ct.main = "HEAD failed"
    THEN [error |-> "HTTPException: URL", kind |-> "none"]
    ELSE IF ct.main = "text" THEN [error |-> "none", kind |-> "text"]
    ELSE IF ct.main = "image" THEN [error |-> "none", kind |-> "image_url"]
    ELSE IF ct.main = "video" THEN [error |-> "none", kind |-> "video_url"]
    ELSE IF ct.main = "audio" THEN [error |-> "none", kind |-> "audio_url"]
    ELSE IF ct.main = "application" /\ ct.sub \in DocumentSubTypes
    THEN [error |-> "none", kind |-> "document_url"]
    ELSE [error |-> "HTTPException: Unsupported file type", kind |-> "none"]

NoExUpdate == [set |-> FALSE, extracted_text |-> PyNone, input_file |-> "none"]

\* No pass of the polling loop made yet: the state the latest pass saw and
\* the seconds it then spent in time.sleep.
NoPolls == [seen |-> "none", slept |-> 0]

\* What the model returns to the extraction prompt: a narrative, an empty
\* text, or no text.
Narratives == {PyStr(<<"PROSE">>), PyStr(<<>>), PyNone}

NoCount ==
    [upload |-> 0, generate |-> 0, content_message |-> 0, url_invoke |-> 0,
     raw_invoke |-> 0]

\* The states execute can be given: input_file_path is None, a local path
\* or a URL; raw_input is None or a text.
StartStates ==
    [input_file_path : {"None", "PATH", "URL"},
     is_url : BOOLEAN,
     raw_input : {"None", "TEXT"},
     session_id : {"sid"}]

ExInit ==
    /\ state = [input_file_path |-> "None", is_url |-> FALSE, raw_input |-> "None",
                session_id |-> "sid"]
    /\ env = [exists |-> FALSE, content_type |-> NoContentType]
    /\ ex_pc = "idle"
    /\ ex_error = "none"
    /\ ex_elapsed = 0
    /\ ex_count = NoCount
    /\ ex_polls = NoPolls
    /\ ex_update = NoExUpdate

\* The `return` of execute: `uploaded_file` is a local that only the
\* file_path branch binds; reading it unbound raises UnboundLocalError.
ExecuteReturn(extracted_text, bound, uploaded_file) ==
    IF bound
    THEN /\ ex_pc' = "done"
         /\ ex_error' = "none"
         /\ ex_update' = [set |-> TRUE, extracted_text |-> extracted_text,
                          input_file |-> uploaded_file]
    ELSE /\ ex_pc' = "raised"
         /\ ex_error' = "UnboundLocalError"
         /\ ex_update' = NoExUpdate

ExecuteRaise(error) ==
    /\ ex_pc' = "raised"
    /\ ex_error' = error
    /\ ex_update' = NoExUpdate

Bump(count, op) == [count EXCEPT ![op] = @ + 1]

\* An extract_from_input without the test of the path.
NeverMissing(path, exists) == FALSE

\* `not os.path.exists(file_input)`: only a local path can exist.
FileMissing(path, exists) == ~(path = "PATH" /\ exists)

\* execute up to its first external call: the branch on file_path and
\* raw_input, and in extract_from_input the branch on is_url.  The URL
\* branch is run to its end here.
ExtractionEnter ==
    /\ ex_pc = "ready"
    /\ ex_elapsed' = 0
    /\ ex_polls' = NoPolls
    /\ IF state.input_file_path # "None"
       THEN IF state.is_url
            THEN LET msg == PrepareContentMessage(ContentMessageArgs, env.content_type)
                 IN IF msg.error # "none"
                    THEN ExecuteRaise(msg.error) /\ UNCHANGED ex_count
                    ELSE \/ \E content \in Narratives :
                              /\ ExecuteReturn(content, TRUE, "None")
                              /\ ex_count' = Bump(Bump(ex_count, "content_message"),
                                                  "url_invoke")
                         \/ /\ ExecuteRaise("model")
                            /\ ex_count' = Bump(Bump(ex_count, "content_message"),
                                                "url_invoke")
            ELSE IF FileMissing(state.input_file_path, env.exists)
                 THEN ExecuteRaise("FileNotFoundError") /\ UNCHANGED ex_count
                 ELSE /\ ex_pc' = "upload"
                      /\ UNCHANGED <<ex_error, ex_update, ex_count>>
       ELSE IF state.raw_input # "None"
            THEN /\ ex_pc' = "raw_invoke"
                 /\ UNCHANGED <<ex_error, ex_update, ex_count>>
            ELSE \* extracted_text = "No input provided."
                 ExecuteReturn(PyStr(<<"PROSE">>), FALSE, "None") /\ UNCHANGED ex_count
    /\ UNCHANGED <<state, env>>
    /\ UNCHANGED <<gwVars, vjVars, rpVars, clVars, nodeVars>>

\* self.multimodal_client.files.upload(file=file_input).
ExtractionUpload ==
    /\ ex_pc = "upload"
    /\ ex_count' = Bump(ex_count, "upload")
    /\ \/ \E d \in 0..MaxLatency :
            /\ ex_elapsed' = ex_elapsed + d
            /\ ex_pc' = "poll"
            /\ UNCHANGED <<ex_error, ex_update>>
       \/ ExecuteRaise("upload") /\ UNCHANGED ex_elapsed
    /\ UNCHANGED <<state, env, ex_polls>>
    /\ UNCHANGED <<gwVars, vjVars, rpVars, clVars, nodeVars>>

\* A loop that gives up as soon as the ceiling is reached (`diff_time >= 180`).
PollTimedOutEarly(diff_time) == diff_time >= PollCeiling

\* `diff_time > 180`.
PollTimedOut(diff_time) == diff_time > PollCeiling

\* The states files.get reports.
HandleStates == {"PROCESSING", "ACTIVE", "FAILED"}

\* The record of a pass that saw state st and then slept for s seconds.
Polled(st, s) == [seen |-> st, slept |-> s]

\* One pass of the polling loop: files.get, the test of the state, the test
\* of the time, time.sleep(2).
ExtractionPoll ==
    /\ ex_pc = "poll"
    /\ \/ \E d \in 0..MaxLatency, st \in HandleStates :
            LET now == ex_elapsed + d
            IN IF st = "ACTIVE"
               THEN /\ ex_pc' = "generate"
                    /\ ex_elapsed' = now
                    /\ ex_polls' = Polled(st, 0)
                    /\ UNCHANGED <<ex_error, ex_update>>
               ELSE IF st = "FAILED"
               THEN /\ ExecuteRaise("RuntimeError: File processing failed")
                    /\ ex_elapsed' = now
                    /\ ex_polls' = Polled(st, 0)
               ELSE IF PollTimedOut(now)
               THEN /\ ExecuteRaise("HTTPException: 502 timed out")
                    /\ ex_elapsed' = now
                    /\ ex_polls' = Polled(st, 0)
               ELSE /\ ex_elapsed' = now + PollInterval
                    /\ ex_polls' = Polled(st, PollInterval)
                    /\ UNCHANGED <<ex_pc, ex_error, ex_update>>
       \/ ExecuteRaise("upload") /\ UNCHANGED <<ex_elapsed, ex_polls>>
    /\ UNCHANGED <<state, env, ex_count>>
    /\ UNCHANGED <<gwVars, vjVars, rpVars, clVars, nodeVars>>

\* self.multimodal_client.models.generate_content, called once, and the
\* return of extract_from_input and of execute.
ExtractionGenerate ==
    /\ ex_pc = "generate"
    /\ ex_count' = Bump(ex_count, "generate")
    /\ \/ \E content \in Narratives : ExecuteReturn(content, TRUE, "HANDLE")
       \/ ExecuteRaise("model")
    /\ UNCHANGED <<state, env, ex_elapsed, ex_polls>>
    /\ UNCHANGED <<gwVars, vjVars, rpVars, clVars, nodeVars>>

\* extract_from_text: self.text_llm.invoke, called once, and the return of
\* execute.
ExtractionRawInvoke ==
    /\ ex_pc = "raw_invoke"
    /\ ex_count' = Bump(ex_count, "raw_invoke")
    /\ \/ \E content \in Narratives : ExecuteReturn(content, FALSE, "None")
       \/ ExecuteRaise("model")
    /\ UNCHANGED <<state, env, ex_elapsed, ex_polls>>
    /\ UNCHANGED <<gwVars, vjVars, rpVars, clVars, nodeVars>>

(***************************************************************************)
(* The shared state (globalstate.py) as StateGraph(TravelAgentState) keeps  *)
(* it: one channel per key of the TypedDict.  The graph writes a key of the *)
(* input or of a node's update only when the key is a channel; other keys   *)
(* are dropped.  globalstate.py holds an unresolved merge conflict          *)
(* (lines 6-10 and 36-40); a build has resolved it one way or another.     *)
(***************************************************************************)
Resolutions == {"upstream", "stashed", "both"}

\* The keys of TravelAgentState outside the conflict (lines 13-35).
CommonKeys ==
    {"input_text", "input_file_path", "extracted_text", "extraction_complete",
     "validated", "validation_attempts", "validation_prompt", "classification_type",
     "classification_reason", "final_itinerary", "next", "messages", "failed_reason",
     "basic_information", "travel_plan", "experience"}

Channels(resolution) ==
    CommonKeys
        \cup (IF resolution \in {"upstream", "both"} THEN {"tags_info"} ELSE {})
        \cup (IF resolution \in {"stashed", "both"} THEN {"evaluation"} ELSE {})

\* No experience built.
NoExperience == [set |-> FALSE, raised |-> FALSE, keys |-> {}, plan_type |-> "absent"]

\* The state with no key set: what state.get(key) finds is None.
EmptyState ==
    [input_file_path |-> "absent",
     is_url |-> "absent",
     session_id |-> "absent",
     raw_input |-> "absent",
     extracted_text |-> NoOutcome,
     input_file |-> "absent",
     classification_type |-> "absent",
     classification_reason |-> "absent",
     basic_info |-> "absent",
     tags_info |-> "absent",
     travel_plan |-> "absent",
     experience |-> NoExperience,
     evaluation |-> "absent",
     next |-> "absent"]

\* One write of an update: applied when the key is a channel.
Put(st, resolution, key, value) ==
    IF key \in Channels(resolution) THEN [st EXCEPT ![key] = value] ELSE st

(***************************************************************************)
(* BasicInfoAgent (basic_info.py) and PlanAgent (plan_agent.py).  Both     *)
(* call the model directly: llm.with_structured_output(Schema).invoke      *)
(* returns an instance of the schema or None, or raises: "parse" when the  *)
(* model's output does not fit the schema, "model" when the call fails.    *)
(***************************************************************************)
StructuredResults == {"MODEL", "None"}

StructuredErrors == {"parse", "model"}

\* What the agent's final message can hold: nothing, white space, or an
\* answer.
AgentContents == {"", " ", "answer"}

\* content.strip() == "".
Blank(content) == content \in {"", " "}

\* The numbers of primary and of secondary experienceTags tags_prompt asks
\* the model for.
PrimaryTagCount == 8

SecondaryTagCount == 5

\* The content of a tags instance: whether every value of
\* experienceCategory, experienceTypes and experienceSubTypes is in the
\* taxonomy, and the lengths of experienceTags and secondaryTags.experienceTags.
NoTags == [in_taxonomy |-> TRUE, primary |-> 0, secondary |-> 0]

\* The instances of ExperienceTagsOutputScehma the structured call can
\* build: every field is an optional list of any strings, empty by default.
TagContents ==
    {[in_taxonomy |-> TRUE, primary |-> PrimaryTagCount, secondary |-> SecondaryTagCount],
     [in_taxonomy |-> FALSE, primary |-> PrimaryTagCount, secondary |-> SecondaryTagCount],
     [in_taxonomy |-> TRUE, primary |-> PrimaryTagCount + 1, secondary |-> SecondaryTagCount],
     NoTags}

NoBiUpdate ==
    [keys |-> {}, basic_info |-> "absent", tags_info |-> "absent", tags |-> NoTags,
     next |-> "absent"]

NoPlUpdate == [keys |-> {}, travel_plan |-> "absent", next |-> "absent"]

BiInit ==
    /\ bi_pc = "idle"
    /\ bi_turns = 0
    /\ bi_basic = "absent"
    /\ bi_final = <<>>
    /\ bi_calls = <<>>
    /\ bi_error = "none"
    /\ bi_update = NoBiUpdate

PlInit ==
    /\ pl_pc = "idle"
    /\ pl_error = "none"
    /\ pl_update = NoPlUpdate

\* BasicInfoAgent.execute up to its first call of the model.
BasicInfoEnter(extracted_text) ==
    /\ bi_pc = "idle"
    /\ bi_turns' = 0
    /\ bi_basic' = "absent"
    /\ bi_final' = <<>>
    /\ bi_calls' = <<>>
    /\ bi_error' = "none"
    /\ IF ~Truthy(extracted_text)
       THEN /\ bi_pc' = "done"
            /\ bi_update' = [NoBiUpdate EXCEPT !.keys = {"next"}, !.next = "extraction"]
       ELSE /\ bi_pc' = "basic"
            /\ bi_update' = NoBiUpdate

\* llm_structured.invoke for the BasicInfo schema.
BasicInfoStructured ==
    /\ bi_pc = "basic"
    /\ bi_calls' = Append(bi_calls, "basic")
    /\ \/ \E r \in StructuredResults :
            /\ bi_basic' = r
            /\ bi_pc' = "agent"
            /\ UNCHANGED bi_error
       \/ \E e \in StructuredErrors :
            /\ bi_pc' = "raised"
            /\ bi_error' = e
            /\ UNCHANGED bi_basic
    /\ UNCHANGED <<bi_turns, bi_final, bi_update>>
    /\ UNCHANGED <<gwVars, vjVars, rpVars, clVars, exVars>>
    /\ UNCHANGED <<wfVars, plVars, cbVars, evVars, vaVars, apVars, mfVars>>

\* `if not final_message.content or final_message.content.strip() == ""`
\* after the first call of the agent: the agent is called once more.
AskAgainOnEmpty(turns, content) == turns = 1 /\ content = ""

AskAgain(turns, content) == turns = 1 /\ (content = "" \/ Blank(content))

\* extract_tags: one call of agent_executor.invoke.
BasicInfoAgentTurn ==
    /\ bi_pc = "agent"
    /\ bi_turns' = bi_turns + 1
    /\ bi_calls' = Append(bi_calls, "agent")
    /\ \/ \E content \in AgentContents :
            /\ bi_final' = Append(bi_final, content)
            /\ bi_pc' = IF AskAgain(bi_turns', content) THEN "agent" ELSE "tags"
            /\ UNCHANGED bi_error
       \/ /\ bi_pc' = "raised"
          /\ bi_error' = "model"
          /\ UNCHANGED bi_final
    /\ UNCHANGED <<bi_basic, bi_update>>
    /\ UNCHANGED <<gwVars, vjVars, rpVars, clVars, exVars>>
    /\ UNCHANGED <<wfVars, plVars, cbVars, evVars, vaVars, apVars, mfVars>>

\* extract_tags: llm_structured.invoke for the tags schema, and the return
\* of execute.
BasicInfoTags ==
    /\ bi_pc = "tags"
    /\ bi_calls' = Append(bi_calls, "tags")
    /\ \/ \E r \in StructuredResults, c \in TagContents :
            /\ r = "None" => c = NoTags
            /\ bi_pc' = "done"
            /\ bi_update' = [keys |-> {"basic_info", "tags_info"},
                             basic_info |-> bi_basic, tags_info |-> r, tags |-> c,
                             next |-> "absent"]
            /\ UNCHANGED bi_error
       \/ \E e \in StructuredErrors :
            /\ bi_pc' = "raised"
            /\ bi_error' = e
            /\ UNCHANGED bi_update
    /\ UNCHANGED <<bi_turns, bi_basic, bi_final>>
    /\ UNCHANGED <<gwVars, vjVars, rpVars, clVars, exVars>>
    /\ UNCHANGED <<wfVars, plVars, cbVars, evVars, vaVars, apVars, mfVars>>

\* PlanAgent.execute up to its call of the model.
PlanEnter(extracted_text) ==
    /\ pl_pc = "idle"
    /\ pl_error' = "none"
    /\ IF ~Truthy(extracted_text)
       THEN /\ pl_pc' = "done"
            /\ pl_update' = [NoPlUpdate EXCEPT !.keys = {"next"}, !.next = "extraction"]
       ELSE /\ pl_pc' = "call"
            /\ pl_update' = NoPlUpdate

\* llm_structured.invoke for the TravelPlan schema, and the return of execute.
PlanStructured ==
    /\ pl_pc = "call"
    /\ \/ \E r \in StructuredResults :
            /\ pl_pc' = "done"
            /\ pl_update' = [keys |-> {"travel_plan"}, travel_plan |-> r, next |-> "absent"]
            /\ UNCHANGED pl_error
       \/ \E e \in StructuredErrors :
            /\ pl_pc' = "raised"
            /\ pl_error' = e
            /\ UNCHANGED pl_update
    /\ UNCHANGED <<gwVars, vjVars, rpVars, clVars, exVars>>
    /\ UNCHANGED <<wfVars, biVars, cbVars, evVars, vaVars, apVars, mfVars>>

(***************************************************************************)
(* combine_node (workflow.py).  A value of basic_info, travel_plan or      *)
(* tags_info is "absent" (the key is not in the state), "None", "EMPTY"    *)
(* (an empty dict) or "MODEL" (an instance of the schema).                 *)
(***************************************************************************)
BasicInfoFields == {"caption", "summary", "location", "inclusion", "exclusion", "faq"}

TravelPlanFields == {"plan"}

TagsFields ==
    {"experienceCategory", "experienceTypes", "experienceSubTypes", "experienceTags",
     "secondaryTags"}

\* state.get(key): a key that is not in the state gives None.
Get(v) == IF v = "absent" THEN "None" ELSE v

\* A combine_node that tests `is not None` where the code tests the truth value.
IsNotNone(v) == v # "None"

\* `if basic_info`: None and an empty dict are false, an instance is true.
HasValue(v) == v \notin {"None", "EMPTY"}

\* A dump without fields.
DumpNothing(v, fields) == [raised |-> FALSE, keys |-> {}]

\* v.model_dump(): only an instance of a schema has the method.
ModelDump(v, fields) ==
    IF v = "MODEL" THEN [raised |-> FALSE, keys |-> fields]
    ELSE [raised |-> TRUE, keys |-> {}]

\* `**(v.model_dump() if v else {})`.
Section(v, fields) ==
    IF HasValue(v) THEN ModelDump(v, fields) ELSE [raised |-> FALSE, keys |-> {}]

\* The dict combine_node builds: the keys of every section and plan_type.
Combine(basic_info, travel_plan, tags_info, classification_type) ==
    LET b == Section(basic_info, BasicInfoFields)
        p == Section(travel_plan, TravelPlanFields)
        g == Section(tags_info, TagsFields)
    IN IF b.raised \/ p.raised \/ g.raised
       THEN [set |-> TRUE, raised |-> TRUE, keys |-> {}, plan_type |-> "absent"]
       ELSE [set |-> TRUE, raised |-> FALSE,
             keys |-> b.keys \cup p.keys \cup g.keys \cup {"plan_type"},
             plan_type |-> classification_type]

NoCombineInput ==
    [basic_info |-> "None", travel_plan |-> "None", tags_info |-> "None",
     classification_type |-> "None"]

CbInit ==
    /\ cb_pc = "idle"
    /\ cb_in = NoCombineInput
    /\ cb_out = NoExperience

\* combine_node(st).
CombineRun(st) ==
    /\ cb_pc = "idle"
    /\ cb_pc' = "done"
    /\ cb_in' = [basic_info |-> Get(st.basic_info),
                 travel_plan |-> Get(st.travel_plan),
                 tags_info |-> Get(st.tags_info),
                 classification_type |-> Get(st.classification_type)]
    /\ cb_out' = Combine(cb_in'.basic_info, cb_in'.travel_plan, cb_in'.tags_info,
                         cb_in'.classification_type)

(***************************************************************************)
(* EvalAgent (eval.py).                                                    *)
(***************************************************************************)
\* The ceiling and the interval of evaluate_from_file's polling loop.
EvalPollCeiling == 180

EvalPollInterval == 2

\* No exception raised, no response received.
NoCause == [error |-> "none", content |-> [t |-> "unset", s |-> <<>>, n |-> 0]]

EvInit ==
    /\ ev_pc = "idle"
    /\ ev_handle = "None"
    /\ ev_elapsed = 0
    /\ ev_uploads = 0
    /\ ev_update = "absent"
    /\ ev_calls = <<>>
    /\ ev_cause = NoCause

\* _error_fallback(message).
EvalFallback == "fallback"

\* The dict _error_fallback returns, but for its key error, which holds the
\* message.
ErrorFallback ==
    [hallucination |-> 0, accuracy |-> 0, conciseness |-> 0,
     structure_compliance |-> "Fail", overall_score |-> 0,
     validation_reason |-> "Evaluation failed due to runtime error"]

\* `if not experience`: a missing experience and an empty dict are false.
NoExperienceData(experience) == ~experience.set \/ experience.keys = {}

\* response.text.strip(), the removal of the fences of a text that starts
\* with ```json, and json.loads: the parsed document, or the fallback.
EvalParse(content) ==
    IF content.t # "str" THEN EvalFallback
    ELSE LET s == Strip(content.s)
             c == IF Len(s) >= 2 /\ s[1] = "FENCE" /\ s[2] = "json"
                  THEN Strip(DropFences(s)) ELSE s
             p == JsonLoads(c)
         IN IF p.ok THEN p.obj ELSE EvalFallback

EvalReturn(evaluation) ==
    /\ ev_pc' = "done"
    /\ ev_update' = evaluation

\* An exception leaves the node uncaught.
EvalFailBare(error) ==
    /\ EvalReturn("raised")
    /\ ev_cause' = [NoCause EXCEPT !.error = error]

\* An exception raised in evaluate_from_file or evaluate_from_text: the
\* except clauses of execute and of the two functions give the fallback.
EvalFail(error) ==
    /\ EvalReturn(EvalFallback)
    /\ ev_cause' = [NoCause EXCEPT !.error = error]

\* execute up to its first external call, and in evaluate_from_file the test
\* of the path and the look for a handle in the state.
EvalEnter(st) ==
    /\ ev_pc = "idle"
    /\ ev_elapsed' = 0
    /\ ev_uploads' = 0
    /\ ev_calls' = <<>>
    /\ IF NoExperienceData(st.experience)
       THEN EvalReturn("no experience") /\ ev_handle' = "None" /\ ev_cause' = NoCause
       ELSE IF Get(st.input_file_path) # "None"
       THEN IF FileMissing(st.input_file_path, env.exists)
            THEN EvalFail("FileNotFoundError") /\ ev_handle' = "None"
            ELSE /\ ev_handle' = Get(st.input_file)
                 /\ ev_pc' = IF ev_handle' = "None" THEN "upload" ELSE "poll"
                 /\ ev_cause' = NoCause
                 /\ UNCHANGED ev_update
       ELSE IF Get(st.raw_input) # "None"
       THEN /\ ev_pc' = "text" /\ ev_handle' = "None" /\ ev_cause' = NoCause
            /\ UNCHANGED ev_update
       ELSE EvalReturn("no input") /\ ev_handle' = "None" /\ ev_cause' = NoCause

\* evaluate_from_file: self.multimodal_client.files.upload(file=file_path).
EvalUpload ==
    /\ ev_pc = "upload"
    /\ ev_uploads' = ev_uploads + 1
    /\ \/ /\ ev_handle' = "HANDLE"
          /\ ev_pc' = "poll"
          /\ UNCHANGED <<ev_update, ev_cause>>
       \/ EvalFail("upload") /\ UNCHANGED ev_handle
    /\ UNCHANGED <<ev_elapsed, ev_calls>>
    /\ UNCHANGED <<gwVars, vjVars, rpVars, clVars, exVars>>
    /\ UNCHANGED <<wfVars, biVars, plVars, cbVars, vaVars, apVars, mfVars>>

\* `time.time() - start_time > 180`.
EvalPollTimedOut(diff_time) == diff_time > EvalPollCeiling

\* One pass of evaluate_from_file's polling loop.  The clock is read only
\* inside the loop: ev_elapsed is 0 again once the loop is left by `break`.
EvalPoll ==
    /\ ev_pc = "poll"
    /\ \/ \E d \in 0..MaxLatency, st \in HandleStates :
            LET now == ev_elapsed + d
            IN IF st = "ACTIVE"
               THEN /\ ev_pc' = "generate" /\ ev_elapsed' = 0
                    /\ UNCHANGED <<ev_update, ev_cause>>
               ELSE IF st = "FAILED"
               THEN EvalFail("RuntimeError: File processing failed") /\ ev_elapsed' = now
               ELSE IF EvalPollTimedOut(now)
               THEN EvalFail("HTTPException: 502 timed out") /\ ev_elapsed' = now
               ELSE /\ ev_elapsed' = now + EvalPollInterval
                    /\ UNCHANGED <<ev_pc, ev_update, ev_cause>>
       \/ EvalFail("upload") /\ UNCHANGED ev_elapsed
    /\ UNCHANGED <<ev_handle, ev_uploads, ev_calls>>
    /\ UNCHANGED <<gwVars, vjVars, rpVars, clVars, exVars>>
    /\ UNCHANGED <<wfVars, biVars, plVars, cbVars, vaVars, apVars, mfVars>>

\* evaluate_from_file: models.generate_content inside the try, and the parse.
EvalGenerate ==
    /\ ev_pc = "generate"
    /\ ev_calls' = Append(ev_calls, "multimodal")
    /\ \/ \E content \in ModelResponses :
            /\ EvalReturn(EvalParse(content))
            /\ ev_cause' = [NoCause EXCEPT !.content = content]
       \/ EvalFail("model")
    /\ UNCHANGED <<ev_handle, ev_elapsed, ev_uploads>>
    /\ UNCHANGED <<gwVars, vjVars, rpVars, clVars, exVars>>
    /\ UNCHANGED <<wfVars, biVars, plVars, cbVars, vaVars, apVars, mfVars>>

\* evaluate_from_text: eval_llm.invoke inside the try, and the parse.
EvalText ==
    /\ ev_pc = "text"
    /\ ev_calls' = Append(ev_calls, "text")
    /\ \/ \E content \in ModelResponses :
            /\ EvalReturn(EvalParse(content))
            /\ ev_cause' = [NoCause EXCEPT !.content = content]
       \/ EvalFail("model")
    /\ UNCHANGED <<ev_handle, ev_elapsed, ev_uploads>>
    /\ UNCHANGED <<gwVars, vjVars, rpVars, clVars, exVars>>
    /\ UNCHANGED <<wfVars, biVars, plVars, cbVars, vaVars, apVars, mfVars>>

(***************************************************************************)
(* ValidationAgent (validation.py).  check_completeness asks the model and *)
(* parses its answer with json.loads: the answer is a dict with the flags  *)
(* has_destination and is_validated (a missing flag reads as false) and a  *)
(* validation_prompt, or JSON that is no dict, or no JSON, which gives the *)
(* dict of the except clause; llm.invoke is outside the try.  create_      *)
(* travel_workflow does not add the node to the graph; the variant that    *)
(* wires it between Extraction and Classification is modelled by its loop  *)
(* alone: Extraction, Validation, and the edge that follows `next`.        *)
(***************************************************************************)
\* An update without keys.
EmptyUpdate == [k \in {} |-> "absent"]

\* ValidationAgent.MAX_ATTEMPTS.
MAX_ATTEMPTS == 0

\* The largest cap and the largest validation_attempts a call is given.
MaxCap == 2

\* The dict of check_completeness's except clause.
ParseFallback ==
    [dict |-> TRUE, has_destination |-> FALSE, is_validated |-> FALSE,
     validation_prompt |-> "", failed_reason |-> "Error occured"]

\* JSON that is no dict: validation_result.get raises AttributeError.
NotADict ==
    [dict |-> FALSE, has_destination |-> FALSE, is_validated |-> FALSE,
     validation_prompt |-> "", failed_reason |-> ""]

\* What check_completeness returns.
CompletenessResults ==
    [dict : {TRUE}, has_destination : BOOLEAN, is_validated : BOOLEAN,
     validation_prompt : {"", "Which city?"}, failed_reason : {"missing"}]
        \cup {ParseFallback, NotADict}

NoCompleteness == [NotADict EXCEPT !.failed_reason = "none"]

VaInit ==
    /\ va_pc = "idle"
    /\ va_cap = MAX_ATTEMPTS
    /\ va_read = 0
    /\ va_result = NoCompleteness
    /\ va_error = "none"
    /\ va_update = EmptyUpdate
    /\ va_runs = 0

\* A comparison that lets one more attempt through.
PastCap(validation_attempts, cap) == validation_attempts > cap

\* `validation_attempts >= self.MAX_ATTEMPTS`.
AtCap(validation_attempts, cap) == validation_attempts >= cap

\* execute from `if has_destination and is_validated` on: the update.
Validate(result, validation_attempts, cap) ==
    IF result.has_destination /\ result.is_validated
    THEN [validated |-> TRUE,
          validation_attempts |-> validation_attempts + 1,
          missing_fields |-> "[]",
          validation_prompt |-> "",
          failed_reason |-> "",
          next |-> "classification"]
    ELSE IF AtCap(validation_attempts, cap)
    THEN IF result.has_destination
         THEN [validated |-> TRUE,
               validation_attempts |-> validation_attempts + 1,
               validation_prompt |-> "",
               failed_reason |-> "",
               next |-> "classification"]
         ELSE [validated |-> FALSE,
               validation_attempts |-> validation_attempts + 1,
               validation_prompt |-> "No Destination",
               next |-> "classification"]
    ELSE [validated |-> FALSE,
          validation_attempts |-> validation_attempts + 1,
          validation_prompt |-> result.validation_prompt,
          failed_reason |-> result.failed_reason,
          next |-> "extraction"]

\* execute reads validation_attempts from the state and calls
\* check_completeness.
ValidationEnter(validation_attempts, cap, runs) ==
    /\ va_pc' = "check"
    /\ va_cap' = cap
    /\ va_read' = validation_attempts
    /\ va_runs' = runs
    /\ va_result' = NoCompleteness
    /\ va_error' = "none"
    /\ va_update' = EmptyUpdate

\* check_completeness returns or llm.invoke raises, and execute ends.
ValidationCheck ==
    /\ va_pc = "check"
    /\ \/ /\ va_pc' = "raised"
          /\ va_error' = "model"
          /\ UNCHANGED <<va_result, va_update>>
       \/ \E result \in CompletenessResults :
            /\ va_result' = result
            /\ IF result.dict
               THEN /\ va_pc' = "done"
                    /\ va_update' = Validate(result, va_read, va_cap)
                    /\ UNCHANGED va_error
               ELSE /\ va_pc' = "raised"
                    /\ va_error' = "AttributeError"
                    /\ UNCHANGED va_update
    /\ UNCHANGED <<va_cap, va_read, va_runs>>
    /\ UNCHANGED <<gwVars, vjVars, rpVars, clVars, exVars>>
    /\ UNCHANGED <<wfVars, biVars, plVars, cbVars, evVars, apVars, mfVars>>

\* The conditional edge of the variant with Validation wired in, on
\* next == "extraction": Extraction runs again and Validation after it, on
\* the state with the update written.
LoopToExtraction ==
    /\ va_pc = "done"
    /\ va_runs \in 1..(MaxCap + 2)
    /\ va_update.next = "extraction"
    /\ ValidationEnter(va_update.validation_attempts, va_cap, va_runs + 1)
    /\ UNCHANGED <<gwVars, vjVars, rpVars, clVars, exVars>>
    /\ UNCHANGED <<wfVars, biVars, plVars, cbVars, evVars, apVars, mfVars>>

\* The conditional edge on next == "classification": the loop is left.
LoopToClassification ==
    /\ va_pc = "done"
    /\ va_runs >= 1
    /\ va_update.next = "classification"
    /\ va_pc' = "classification"
    /\ UNCHANGED <<va_cap, va_read, va_result, va_error, va_update, va_runs>>
    /\ UNCHANGED <<gwVars, vjVars, rpVars, clVars, exVars>>
    /\ UNCHANGED <<wfVars, biVars, plVars, cbVars, evVars, apVars, mfVars>>

(***************************************************************************)
(* The compiled graph (workflow.py, create_travel_workflow and              *)
(* start_agentic_process).  workflow.invoke runs the graph in supersteps:  *)
(* the nodes of a step all run, each on the state the step began with;     *)
(* when all have ended, an exception of a node ends the run, and otherwise *)
(* their updates are written, a key taking at most one value per step, and *)
(* the step of the nodes their edges lead to begins.                       *)
(***************************************************************************)
\* workflow.add_node: the validation node is not added.
Nodes ==
    {"extraction", "classification", "basic_info_node", "plan", "combine_node",
     "eval_node"}

\* workflow.set_entry_point.
EntryPoint == "extraction"

\* workflow.add_edge.
Edges ==
    {<<"extraction", "classification">>,
     <<"classification", "basic_info_node">>,
     <<"classification", "plan">>,
     <<"basic_info_node", "combine_node">>,
     <<"plan", "combine_node">>,
     <<"combine_node", "eval_node">>,
     <<"eval_node", "END">>}

Successors(nodes) == {e[2] : e \in {x \in Edges : x[1] \in nodes}}

NoError == [node |-> "none", error |-> "none"]

WfInit ==
    /\ wf_pc = "idle"
    /\ wf_schema = "both"
    /\ wf_state = EmptyState
    /\ wf_status = [n \in Nodes |-> "idle"]
    /\ wf_pending = [n \in Nodes |-> EmptyUpdate]
    /\ wf_failed = [n \in Nodes |-> "none"]
    /\ wf_log = <<>>
    /\ wf_error = NoError
    /\ wf_uploads = 0
    /\ wf_writes = 0

\* The nodes of the current superstep.
Active == {n \in Nodes : wf_status[n] # "idle"}

\* A node wrapper that logs the exception and returns nothing.
Swallowed(raised) == "done"

\* The try/except of the node wrappers: the exception is logged and raised
\* again.
NodeOutcome(raised) == IF raised THEN "raised" ELSE "done"

Event(node, what) == [node |-> node, what |-> what]

\* A node of the current step starts.
NodeStarts(node) ==
    /\ wf_pc = "step"
    /\ wf_status[node] = "pending"
    /\ wf_status' = [wf_status EXCEPT ![node] = "running"]
    /\ wf_log' = Append(wf_log, Event(node, "start"))

\* A node that was running has returned `update` or raised `error`.
NodeEnds(node, raised, update, error) ==
    /\ wf_pc = "step"
    /\ wf_status[node] = "running"
    /\ wf_status' = [wf_status EXCEPT ![node] = NodeOutcome(raised)]
    /\ wf_pending' = [wf_pending EXCEPT ![node] = IF raised THEN EmptyUpdate ELSE update]
    /\ wf_failed' = [wf_failed EXCEPT ![node] = IF raised THEN error ELSE "none"]
    /\ wf_log' = Append(wf_log, Event(node, IF raised THEN "raise" ELSE "return"))

\* extraction_node: extraction_agent.execute(state) begins.
ExtractionNodeStart ==
    /\ NodeStarts("extraction")
    /\ ex_pc = "idle"
    /\ ex_pc' = "ready"
    /\ state' = [input_file_path |-> IF wf_state.input_file_path = "absent" THEN "None"
                                     ELSE wf_state.input_file_path,
                 is_url |-> (wf_state.is_url = "True"),
                 raw_input |-> IF wf_state.raw_input = "absent" THEN "None" ELSE "TEXT",
                 session_id |-> Get(wf_state.session_id)]
    /\ UNCHANGED <<env, ex_error, ex_elapsed, ex_count, ex_polls, ex_update>>
    /\ UNCHANGED <<wf_pc, wf_schema, wf_state, wf_pending, wf_failed, wf_error,
                   wf_uploads, wf_writes>>
    /\ UNCHANGED <<gwVars, vjVars, rpVars, clVars, biVars, plVars, cbVars, evVars, vaVars, apVars, mfVars>>

\* extraction_node returns the agent's update, or raises what it raised.
ExtractionNodeEnd ==
    /\ ex_pc \in {"done", "raised"}
    /\ NodeEnds("extraction", ex_pc = "raised",
                [extracted_text |-> ex_update.extracted_text,
                 input_file |-> ex_update.input_file],
                ex_error)
    /\ wf_uploads' = wf_uploads + ex_count.upload
    /\ ex_pc' = "idle"
    /\ ex_error' = "none"
    /\ ex_elapsed' = 0
    /\ ex_count' = NoCount
    /\ ex_polls' = NoPolls
    /\ ex_update' = NoExUpdate
    /\ UNCHANGED <<state, env>>
    /\ UNCHANGED <<wf_pc, wf_schema, wf_state, wf_error, wf_writes>>
    /\ UNCHANGED <<gwVars, vjVars, rpVars, clVars, biVars, plVars, cbVars, evVars, vaVars, apVars, mfVars>>

\* classification_node: classification_agent.execute(state) begins.
ClassificationNodeStart ==
    /\ NodeStarts("classification")
    /\ ClassifyEnter
    /\ UNCHANGED <<wf_pc, wf_schema, wf_state, wf_pending, wf_failed, wf_error,
                   wf_uploads, wf_writes>>
    /\ UNCHANGED <<vjVars, rpVars, exVars, biVars, plVars, cbVars, evVars, vaVars, apVars, mfVars>>

ClassificationNodeEnd ==
    /\ cl_pc \in {"done", "raised"}
    /\ NodeEnds("classification", cl_pc = "raised",
                [classification_type |-> cl_update.classification_type,
                 classification_reason |-> cl_update.classification_reason],
                cl_error)
    /\ cl_pc' = "idle"
    /\ cl_first' = NoOutcome
    /\ cl_content' = PyNone
    /\ cl_result' = "none"
    /\ cl_error' = "none"
    /\ cl_update' = NoUpdate
    /\ UNCHANGED <<wf_pc, wf_schema, wf_state, wf_error, wf_uploads, wf_writes>>
    /\ UNCHANGED <<gwVars, vjVars, rpVars, exVars, biVars, plVars, cbVars, evVars, vaVars, apVars, mfVars>>

\* basic_info_node: basic_info_agent.execute(state) begins.
BasicInfoNodeStart ==
    /\ NodeStarts("basic_info_node")
    /\ BasicInfoEnter(wf_state.extracted_text)
    /\ UNCHANGED <<wf_pc, wf_schema, wf_state, wf_pending, wf_failed, wf_error,
                   wf_uploads, wf_writes>>
    /\ UNCHANGED <<gwVars, vjVars, rpVars, clVars, exVars, plVars, cbVars, evVars, vaVars, apVars, mfVars>>

\* The update as a mapping: its keys and their values.
RECURSIVE KeysOf(_, _)
KeysOf(update, keys) ==
    IF keys = {} THEN EmptyUpdate
    ELSE LET k == CHOOSE x \in keys : TRUE
         IN (k :> update[k]) @@ KeysOf(update, keys \ {k})

BasicInfoNodeEnd ==
    /\ bi_pc \in {"done", "raised"}
    /\ NodeEnds("basic_info_node", bi_pc = "raised", KeysOf(bi_update, bi_update.keys),
                bi_error)
    /\ bi_pc' = "idle"
    /\ bi_turns' = 0
    /\ bi_basic' = "absent"
    /\ bi_final' = <<>>
    /\ bi_calls' = <<>>
    /\ bi_error' = "none"
    /\ bi_update' = NoBiUpdate
    /\ UNCHANGED <<wf_pc, wf_schema, wf_state, wf_error, wf_uploads, wf_writes>>
    /\ UNCHANGED <<gwVars, vjVars, rpVars, clVars, exVars, plVars, cbVars, evVars, vaVars, apVars, mfVars>>

\* plan_agent_node: plan_agent.execute(state) begins.
PlanNodeStart ==
    /\ NodeStarts("plan")
    /\ PlanEnter(wf_state.extracted_text)
    /\ UNCHANGED <<wf_pc, wf_schema, wf_state, wf_pending, wf_failed, wf_error,
                   wf_uploads, wf_writes>>
    /\ UNCHANGED <<gwVars, vjVars, rpVars, clVars, exVars, biVars, cbVars, evVars, vaVars, apVars, mfVars>>

PlanNodeEnd ==
    /\ pl_pc \in {"done", "raised"}
    /\ NodeEnds("plan", pl_pc = "raised", KeysOf(pl_update, pl_update.keys), pl_error)
    /\ pl_pc' = "idle"
    /\ pl_error' = "none"
    /\ pl_update' = NoPlUpdate
    /\ UNCHANGED <<wf_pc, wf_schema, wf_state, wf_error, wf_uploads, wf_writes>>
    /\ UNCHANGED <<gwVars, vjVars, rpVars, clVars, exVars, biVars, cbVars, evVars, vaVars, apVars, mfVars>>

\* combine_node: it calls nothing outside, and starts and ends in one step.
CombineNode ==
    /\ wf_pc = "step"
    /\ wf_status["combine_node"] = "pending"
    /\ LET experience == Combine(Get(wf_state.basic_info), Get(wf_state.travel_plan),
                                 Get(wf_state.tags_info),
                                 Get(wf_state.classification_type))
       IN /\ wf_status' = [wf_status EXCEPT !["combine_node"] =
                               IF experience.raised THEN "raised" ELSE "done"]
          /\ wf_pending' = [wf_pending EXCEPT !["combine_node"] =
                                IF experience.raised THEN EmptyUpdate
                                ELSE [experience |-> experience]]
          /\ wf_failed' = [wf_failed EXCEPT !["combine_node"] =
                               IF experience.raised THEN "AttributeError" ELSE "none"]
          /\ wf_log' = wf_log \o <<Event("combine_node", "start"),
                                   Event("combine_node",
                                         IF experience.raised THEN "raise" ELSE "return")>>
    /\ UNCHANGED <<wf_pc, wf_schema, wf_state, wf_error, wf_uploads, wf_writes>>
    /\ UNCHANGED <<gwVars, vjVars, rpVars, clVars, exVars, biVars, plVars, cbVars, evVars, vaVars, apVars, mfVars>>

\* eval_node: eval_agent.execute(state) begins.
EvalNodeStart ==
    /\ NodeStarts("eval_node")
    /\ EvalEnter(wf_state)
    /\ UNCHANGED <<wf_pc, wf_schema, wf_state, wf_pending, wf_failed, wf_error,
                   wf_uploads, wf_writes>>
    /\ UNCHANGED <<gwVars, vjVars, rpVars, clVars, exVars, biVars, plVars, cbVars, vaVars, apVars, mfVars>>

\* execute catches every exception: eval_node always returns an update.
EvalNodeEnd ==
    /\ ev_pc = "done"
    /\ NodeEnds("eval_node", FALSE, [evaluation |-> ev_update], "none")
    /\ wf_uploads' = wf_uploads + ev_uploads
    /\ ev_pc' = "idle"
    /\ ev_handle' = "None"
    /\ ev_elapsed' = 0
    /\ ev_uploads' = 0
    /\ ev_update' = "absent"
    /\ ev_calls' = <<>>
    /\ ev_cause' = NoCause
    /\ UNCHANGED <<wf_pc, wf_schema, wf_state, wf_error, wf_writes>>
    /\ UNCHANGED <<gwVars, vjVars, rpVars, clVars, exVars, biVars, plVars, cbVars, vaVars, apVars, mfVars>>

\* Some node of the step has ended.
StepOverEarly ==
    /\ wf_pc = "step"
    /\ \E n \in Active : wf_status[n] \in {"done", "raised"}

\* Every node of the step has ended.
StepOver ==
    /\ wf_pc = "step"
    /\ Active # {}
    /\ \A n \in Active : wf_status[n] \in {"done", "raised"}

Raised == {n \in Active : wf_status[n] = "raised"}

\* The channels the update of a node writes.
Written(n) == DOMAIN wf_pending[n] \cap Channels(wf_schema)

\* Two nodes of the step write the same channel.
Conflict == \E n, m \in Active : n # m /\ Written(n) \cap Written(m) # {}

\* A node of the step raised: workflow.invoke raises its exception, and
\* start_agentic_process raises it again.
StepRaise ==
    /\ StepOver
    /\ \E n \in Raised : wf_error' = [node |-> n, error |-> wf_failed[n]]
    /\ wf_pc' = "aborted"
    /\ UNCHANGED <<wf_schema, wf_state, wf_status, wf_pending, wf_failed, wf_log,
                   wf_uploads, wf_writes>>
    /\ UNCHANGED <<gwVars, vjVars, rpVars, clVars, exVars, biVars, plVars, cbVars, evVars, vaVars, apVars, mfVars>>

\* No node raised, but a channel got two values in one step: the graph
\* raises InvalidUpdateError.
StepConflict ==
    /\ StepOver
    /\ Raised = {}
    /\ Conflict
    /\ wf_error' = [node |-> "graph", error |-> "InvalidUpdateError"]
    /\ wf_pc' = "aborted"
    /\ UNCHANGED <<wf_schema, wf_state, wf_status, wf_pending, wf_failed, wf_log,
                   wf_uploads, wf_writes>>
    /\ UNCHANGED <<gwVars, vjVars, rpVars, clVars, exVars, biVars, plVars, cbVars, evVars, vaVars, apVars, mfVars>>

\* The state after the writes of `update`.
RECURSIVE ApplyUpdate(_, _, _, _)
ApplyUpdate(st, resolution, update, keys) ==
    IF keys = {} THEN st
    ELSE LET k == CHOOSE x \in keys : TRUE
         IN ApplyUpdate(Put(st, resolution, k, update[k]), resolution, update, keys \ {k})

\* The state after the writes of the updates of `nodes`.
RECURSIVE ApplyAll(_, _, _, _)
ApplyAll(st, resolution, pending, nodes) ==
    IF nodes = {} THEN st
    ELSE LET n == CHOOSE x \in nodes : TRUE
         IN ApplyAll(ApplyUpdate(st, resolution, pending[n], DOMAIN pending[n]),
                     resolution, pending, nodes \ {n})

\* The updates of the step are written and the next step begins; the step
\* after eval_node is END, where workflow.invoke returns the state.
StepApply ==
    /\ StepOver
    /\ Raised = {}
    /\ ~Conflict
    /\ wf_state' = ApplyAll(wf_state, wf_schema, wf_pending, Active)
    /\ wf_writes' = wf_writes +
          Cardinality({n \in Active : "experience" \in Written(n)})
    /\ LET next == Successors(Active)
       IN /\ wf_pc' = IF next = {"END"} THEN "end" ELSE "step"
          /\ wf_status' = [n \in Nodes |-> IF n \in next THEN "pending" ELSE "idle"]
    /\ wf_pending' = [n \in Nodes |-> EmptyUpdate]
    /\ UNCHANGED <<wf_schema, wf_failed, wf_log, wf_error, wf_uploads>>
    /\ UNCHANGED <<gwVars, vjVars, rpVars, clVars, exVars, biVars, plVars, cbVars, evVars, vaVars, apVars, mfVars>>

(***************************************************************************)
(* POST "/create-experience/multiple-files" (api/v1/experience.py).  Each  *)
(* file gets a task of process_file; asyncio.gather starts the tasks in    *)
(* the order of the list.  A task runs on the event loop up to its `await  *)
(* asyncio.to_thread(start_agentic_process, temp_file_path)`, the workflow *)
(* then runs in a thread of its own, and the task goes on, on the event    *)
(* loop, when the thread has ended.  Of the workflow only its two reads of *)
(* the file are kept: Extraction's and Eval's os.path.exists and upload.   *)
(***************************************************************************)
\* The largest number of files of one request.
MaxFiles == 2

Tasks == 1..MaxFiles

\* The names the uploaded files can have.
Filenames == {"a.pdf", "b.pdf"}

NotSeen == [extraction |-> "none", eval |-> "none"]

MfInit ==
    /\ mf_pc = [t \in Tasks |-> "idle"]
    /\ mf_name = [t \in Tasks |-> "a.pdf"]
    /\ mf_seen = [t \in Tasks |-> NotSeen]
    /\ mf_tmp = [f \in Filenames |-> 0]

\* os.path.join(temp_dir, file.filename): the path is the filename's alone.
TempFilePath(t) == mf_name[t]

\* What task t finds at its temp_file_path: its own upload, the upload of
\* another task, or no file.
Found(t) ==
    IF mf_tmp[TempFilePath(t)] = 0 THEN "missing"
    ELSE IF mf_tmp[TempFilePath(t)] = t THEN "own"
    ELSE "other"

\* process_file up to its await: open(temp_file_path, "wb"), copyfileobj,
\* and the start of the thread.  The tasks start in the order of the list.
ProcessFileSave ==
    /\ \E t \in Tasks :
        /\ mf_pc[t] = "task"
        /\ \A u \in Tasks : u < t => mf_pc[u] # "task"
        /\ mf_tmp' = [mf_tmp EXCEPT ![TempFilePath(t)] = t]
        /\ mf_pc' = [mf_pc EXCEPT ![t] = "thread"]
    /\ UNCHANGED <<mf_name, mf_seen>>
    /\ UNCHANGED <<gwVars, vjVars, rpVars, clVars, exVars>>
    /\ UNCHANGED <<wfVars, biVars, plVars, cbVars, evVars, vaVars, apVars>>

\* In the thread, Extraction: os.path.exists(file_input) and files.upload.
\* Without the file the workflow raises FileNotFoundError.
ThreadExtraction ==
    /\ \E t \in Tasks :
        /\ mf_pc[t] = "thread"
        /\ mf_seen' = [mf_seen EXCEPT ![t].extraction = Found(t)]
        /\ mf_pc' = [mf_pc EXCEPT ![t] = IF Found(t) = "missing" THEN "finished"
                                         ELSE "eval"]
    /\ UNCHANGED <<mf_name, mf_tmp>>
    /\ UNCHANGED <<gwVars, vjVars, rpVars, clVars, exVars>>
    /\ UNCHANGED <<wfVars, biVars, plVars, cbVars, evVars, vaVars, apVars>>

\* In the thread, Eval: os.path.exists(file_path) and files.upload, and the
\* end of the workflow; or the workflow raised before Eval.
ThreadEval ==
    /\ \E t \in Tasks :
        /\ mf_pc[t] = "eval"
        /\ \/ mf_seen' = [mf_seen EXCEPT ![t].eval = Found(t)]
           \/ UNCHANGED mf_seen
        /\ mf_pc' = [mf_pc EXCEPT ![t] = "finished"]
    /\ UNCHANGED <<mf_name, mf_tmp>>
    /\ UNCHANGED <<gwVars, vjVars, rpVars, clVars, exVars>>
    /\ UNCHANGED <<wfVars, biVars, plVars, cbVars, evVars, vaVars, apVars>>

\* process_file after its await: the return or the except clause, and
\* `finally: if os.path.exists(temp_file_path): os.remove(temp_file_path)`.
ProcessFileFinally ==
    /\ \E t \in Tasks :
        /\ mf_pc[t] = "finished"
        /\ mf_tmp' = [mf_tmp EXCEPT ![TempFilePath(t)] = 0]
        /\ mf_pc' = [mf_pc EXCEPT ![t] = "returned"]
    /\ UNCHANGED <<mf_name, mf_seen>>
    /\ UNCHANGED <<gwVars, vjVars, rpVars, clVars, exVars>>
    /\ UNCHANGED <<wfVars, biVars, plVars, cbVars, evVars, vaVars, apVars>>

(***************************************************************************)
(* The callers: one call of one operation per behaviour.                   *)
(***************************************************************************)
vars == <<gwVars, vjVars, rpVars, clVars, exVars, nodeVars>>

NothingStarted ==
    /\ gw_pc = "idle"
    /\ vj_pc = "idle"
    /\ rp_pc = "idle"
    /\ cl_pc = "idle"
    /\ ex_pc = "idle"
    /\ bi_pc = "idle"
    /\ pl_pc = "idle"
    /\ cb_pc = "idle"
    /\ ev_pc = "idle"
    /\ wf_pc = "idle"
    /\ va_pc = "idle"
    /\ ap_pc = "idle"
    /\ \A t \in Tasks : mf_pc[t] = "idle"

\* The values validate_json is given: texts, None, and values that are no str.
ValidateInputs ==
    {PyStr(s) : s \in Texts}
        \cup {PyNone, PyInt(0), PyInt(5), PyList(0), PyList(1), PyDict(0), PyDict(1)}

\* The raw texts repair_json_with_llm is given.
RepairRaws == {PyStr(<<"PROSE">>), PyStr(<<"OBJ_M", "FENCE">>), PyStr(<<>>), PyNone}

\* A caller calls LLMClient.invoke(messages, max_retries=..., backoff=...).
CallInvoke ==
    /\ NothingStarted
    /\ \E mr \in 0..MaxRetriesBound, b \in BOOLEAN : GatewayEnter("invoke", "harness", mr, b)
    /\ UNCHANGED <<vjVars, rpVars, clVars, exVars, nodeVars>>

\* A caller calls LLMClient.generate_content(file, prompt, max_retries=...).
CallGenerateContent ==
    /\ NothingStarted
    /\ \E mr \in 0..MaxRetriesBound : GatewayEnter("generate_content", "harness", mr, TRUE)
    /\ UNCHANGED <<vjVars, rpVars, clVars, exVars, nodeVars>>

\* A caller calls validate_json(raw_text).
CallValidateJson ==
    /\ NothingStarted
    /\ \E v \in ValidateInputs :
        /\ vj_in' = v
        /\ vj_out' = ValidateJson(v)
    /\ vj_pc' = "done"
    /\ UNCHANGED <<gwVars, rpVars, clVars, exVars, nodeVars>>

\* A caller calls repair_json_with_llm(llm_client, raw_text, max_attempts=...).
CallRepair ==
    /\ NothingStarted
    /\ \E raw \in RepairRaws, m \in 0..MaxAttemptsBound : RepairEnter("harness", raw, m)
    /\ UNCHANGED <<gwVars, vjVars, clVars, exVars, nodeVars>>

\* classification_node: classification_agent.execute(state).
CallClassification ==
    /\ NothingStarted
    /\ ClassifyEnter
    /\ UNCHANGED <<vjVars, rpVars, exVars, nodeVars>>

\* A caller calls extraction_agent.execute(state).
CallExtraction ==
    /\ NothingStarted
    /\ \E s \in StartStates :
        /\ state' = s
        /\ \E e \in BOOLEAN, ct \in ContentTypes :
             env' = [exists |-> (s.input_file_path = "PATH" /\ e),
                     content_type |-> IF s.input_file_path = "URL" THEN ct
                                      ELSE NoContentType]
    /\ ex_pc' = "ready"
    /\ UNCHANGED <<ex_error, ex_elapsed, ex_count, ex_polls, ex_update>>
    /\ UNCHANGED <<gwVars, vjVars, rpVars, clVars, nodeVars>>

\* The values combine_node can find under basic_info, travel_plan and
\* tags_info, and under classification_type.
CombineInputs == {"absent", "None", "EMPTY", "MODEL"}

ClassificationTypes == {"absent", "managed", "unmanaged"}

\* A caller calls combine_node(state).
CallCombine ==
    /\ NothingStarted
    /\ \E b \in CombineInputs, p \in CombineInputs, g \in CombineInputs,
          c \in ClassificationTypes :
        CombineRun([EmptyState EXCEPT !.basic_info = b, !.travel_plan = p,
                                      !.tags_info = g, !.classification_type = c])
    /\ UNCHANGED <<gwVars, vjVars, rpVars, clVars, exVars>>
    /\ UNCHANGED <<wfVars, biVars, plVars, evVars, vaVars, apVars, mfVars>>

\* The states eval_agent.execute can be given.
EvalStates ==
    {[EmptyState EXCEPT !.input_file_path = f, !.raw_input = r, !.input_file = h,
                        !.experience = x] :
        f \in {"absent", "PATH", "URL"}, r \in {"absent", "TEXT"},
        h \in {"absent", "HANDLE"},
        x \in {NoExperience, Combine("None", "MODEL", "None", "unmanaged")}}

\* A caller calls eval_agent.execute(state).
CallEval ==
    /\ NothingStarted
    /\ \E st \in EvalStates, e \in BOOLEAN :
        /\ wf_state' = st
        /\ env' = [exists |-> (st.input_file_path = "PATH" /\ e),
                   content_type |-> NoContentType]
        /\ EvalEnter(st)
    /\ UNCHANGED <<wf_pc, wf_schema, wf_status, wf_pending, wf_failed, wf_log, wf_error,
                   wf_uploads, wf_writes>>
    /\ UNCHANGED <<state, ex_pc, ex_error, ex_elapsed, ex_count, ex_polls, ex_update>>
    /\ UNCHANGED <<gwVars, vjVars, rpVars, clVars, biVars, plVars, cbVars, vaVars, apVars, mfVars>>

\* python's str(is_url).
BoolText(b) == IF b THEN "True" ELSE "False"

\* start_agentic_process(file_input, is_url): the state it builds, given to
\* workflow.invoke.
WorkflowInvoke(file_input, is_url, exists, content_type, resolution) ==
    /\ wf_schema' = resolution
    /\ wf_state' =
         Put(Put(Put(EmptyState, resolution, "input_file_path", file_input),
                 resolution, "is_url", BoolText(is_url)),
             resolution, "session_id", "sid")
    /\ env' = [exists |-> (file_input = "PATH" /\ exists),
               content_type |-> IF file_input = "URL" THEN content_type
                                ELSE NoContentType]
    /\ wf_pc' = "step"
    /\ wf_status' = [n \in Nodes |-> IF n = EntryPoint THEN "pending" ELSE "idle"]
    /\ UNCHANGED <<wf_pending, wf_failed, wf_log, wf_error, wf_uploads, wf_writes>>
    /\ UNCHANGED <<state, ex_pc, ex_error, ex_elapsed, ex_count, ex_polls, ex_update>>
    /\ UNCHANGED <<gwVars, vjVars, rpVars, clVars, biVars, plVars, cbVars, evVars, vaVars, mfVars>>

\* A caller calls start_agentic_process(file_input, is_url).
StartAgenticProcess ==
    /\ NothingStarted
    /\ \E file_input \in {"PATH", "URL"}, is_url \in BOOLEAN, e \in BOOLEAN,
          ct \in ContentTypes, resolution \in Resolutions :
        WorkflowInvoke(file_input, is_url, e, ct, resolution)
    /\ UNCHANGED apVars

\* A caller calls validation_agent.execute(state), the state with or without
\* validation_attempts (read as 0).
CallValidation ==
    /\ NothingStarted
    /\ \E validation_attempts \in 0..MaxCap, cap \in MAX_ATTEMPTS..MaxCap :
        ValidationEnter(validation_attempts, cap, 0)
    /\ UNCHANGED <<gwVars, vjVars, rpVars, clVars, exVars>>
    /\ UNCHANGED <<wfVars, biVars, plVars, cbVars, evVars, apVars, mfVars>>

\* A run of the variant with Validation wired in: Extraction has run once
\* and Validation runs on a state without validation_attempts.
StartValidatedVariant ==
    /\ NothingStarted
    /\ \E cap \in MAX_ATTEMPTS..MaxCap : ValidationEnter(0, cap, 1)
    /\ UNCHANGED <<gwVars, vjVars, rpVars, clVars, exVars>>
    /\ UNCHANGED <<wfVars, biVars, plVars, cbVars, evVars, apVars, mfVars>>

(***************************************************************************)
(* The endpoints (api/v1/experience.py): each runs start_agentic_process   *)
(* inside try/except Exception and returns a dict.                         *)
(***************************************************************************)
NoResponse == [kind |-> "none", experience |-> NoExperience, evaluation |-> "None",
               error |-> "none"]

ApInit ==
    /\ ap_pc = "idle"
    /\ ap_response = NoResponse

\* The dict of the except clause: {"error": str(e)}.
ErrorResponse(e) ==
    [kind |-> "error", experience |-> NoExperience, evaluation |-> "None", error |-> e]

\* The dict returned after start_agentic_process: res.get("experience") and
\* res.get("evaluation").
ResultResponse(res) ==
    [kind |-> "result", experience |-> res.experience, evaluation |-> Get(res.evaluation),
     error |-> "none"]

\* POST "": the upload is written to the temporary directory under its own
\* name, and start_agentic_process is given that path; open() failing is
\* answered by the except clause.
CreateExperience ==
    /\ NothingStarted
    /\ \/ /\ \E resolution \in Resolutions :
               WorkflowInvoke("PATH", FALSE, TRUE, NoContentType, resolution)
          /\ ap_pc' = "running"
          /\ UNCHANGED ap_response
       \/ /\ ap_pc' = "returned"
          /\ ap_response' = ErrorResponse("OSError")
          /\ UNCHANGED <<gwVars, vjVars, rpVars, clVars, exVars>>
          /\ UNCHANGED <<wfVars, biVars, plVars, cbVars, evVars, vaVars, mfVars>>

\* POST "/from-url": start_agentic_process(str(file_url), is_url=True).
CreateExperienceFromUrl ==
    /\ NothingStarted
    /\ \E ct \in ContentTypes, resolution \in Resolutions :
        WorkflowInvoke("URL", TRUE, FALSE, ct, resolution)
    /\ ap_pc' = "running"
    /\ UNCHANGED ap_response

\* start_agentic_process has returned the final state or raised: the
\* endpoint returns its dict.
EndpointReturns ==
    /\ ap_pc = "running"
    /\ wf_pc \in {"end", "aborted"}
    /\ ap_pc' = "returned"
    /\ ap_response' = IF wf_pc = "end" THEN ResultResponse(wf_state)
                      ELSE ErrorResponse(wf_error.error)
    /\ UNCHANGED <<gwVars, vjVars, rpVars, clVars, exVars>>
    /\ UNCHANGED <<wfVars, biVars, plVars, cbVars, evVars, vaVars, mfVars>>

\* POST "/create-experience/multiple-files": a task of process_file per
\* file, each with the filename of its upload.
CreateExperienceMultiple ==
    /\ NothingStarted
    /\ \E names \in [Tasks -> Filenames] : mf_name' = names
    /\ mf_pc' = [t \in Tasks |-> "task"]
    /\ UNCHANGED <<mf_seen, mf_tmp>>
    /\ UNCHANGED <<gwVars, vjVars, rpVars, clVars, exVars>>
    /\ UNCHANGED <<wfVars, biVars, plVars, cbVars, evVars, vaVars, apVars>>

Init ==
    /\ GwInit /\ VjInit /\ RpInit /\ ClInit /\ ExInit
    /\ BiInit /\ PlInit /\ CbInit /\ EvInit /\ WfInit
    /\ VaInit /\ ApInit /\ MfInit

Next ==
    \/ CallInvoke
    \/ CallGenerateContent
    \/ CallValidateJson
    \/ CallRepair
    \/ CallClassification
    \/ CallExtraction
    \/ InvokeReturns
    \/ InvokeThrows
    \/ GenerateReturns
    \/ GenerateThrows
    \/ RepairAttempt
    \/ RepairAfterInvoke
    \/ RepairExhausted
    \/ ClassifyAfterInvoke
    \/ ClassifyAfterRepair
    \/ ExtractionEnter
    \/ ExtractionUpload
    \/ ExtractionPoll
    \/ ExtractionGenerate
    \/ ExtractionRawInvoke
    \/ CallCombine
    \/ CallEval
    \/ StartAgenticProcess
    \/ ExtractionNodeStart
    \/ ExtractionNodeEnd
    \/ ClassificationNodeStart
    \/ ClassificationNodeEnd
    \/ BasicInfoNodeStart
    \/ BasicInfoStructured
    \/ BasicInfoAgentTurn
    \/ BasicInfoTags
    \/ BasicInfoNodeEnd
    \/ PlanNodeStart
    \/ PlanStructured
    \/ PlanNodeEnd
    \/ CombineNode
    \/ EvalNodeStart
    \/ EvalUpload
    \/ EvalPoll
    \/ EvalGenerate
    \/ EvalText
    \/ EvalNodeEnd
    \/ StepRaise
    \/ StepConflict
    \/ StepApply
    \/ CallValidation
    \/ StartValidatedVariant
    \/ ValidationCheck
    \/ LoopToExtraction
    \/ LoopToClassification
    \/ CreateExperience
    \/ CreateExperienceFromUrl
    \/ EndpointReturns
    \/ CreateExperienceMultiple
    \/ ProcessFileSave
    \/ ThreadExtraction
    \/ ThreadEval
    \/ ProcessFileFinally

Spec == Init /\ [][Next]_vars

(***************************************************************************)
(* The claims.                                                             *)
(***************************************************************************)
\* The backoff the spec gives for the sleep before retry k.
SpecBackoff(k) == Min(2 ^ k, BackoffCap)

\* C1 (amended): invoke and generate_content make exactly max_retries + 1
\* underlying calls when every call throws and then raise; a call that
\* succeeds ends the loop at once with its result.  The sleep before retry k
\* is min(2^k, 30) seconds for generate_content and for invoke with
\* backoff = True; invoke with backoff = False sleeps 1 second each time.
C1_GatewayRetries ==
    /\ gw_pc = "raised" =>
          /\ gw_calls = gw_max_retries + 1
          /\ Len(gw_sleeps) = gw_max_retries
    /\ gw_pc = "returned" =>
          /\ gw_calls <= gw_max_retries + 1
          /\ Len(gw_sleeps) = gw_calls - 1
          /\ gw_result \in ModelResponses
    /\ gw_pc = "loop" =>
          /\ gw_calls <= gw_max_retries
          /\ Len(gw_sleeps) = gw_calls
    /\ \A k \in 1..Len(gw_sleeps) :
          gw_sleeps[k] = IF gw_op = "invoke" /\ ~gw_backoff THEN FlatSleep
                         ELSE SpecBackoff(k)

\* C1, witness: invoke with max_retries = 5 has failed six times and raised,
\* the fifth sleep being the capped one.
C1_Witness ==
    /\ gw_caller = "harness" /\ gw_op = "invoke" /\ gw_backoff
    /\ gw_pc = "raised"
    /\ gw_max_retries = 5
    /\ gw_calls = 6
    /\ gw_sleeps = <<2, 4, 8, 16, 30>>

\* C1 as claimed: whenever the gateway has raised, the sleeps were
\* min(2^k, 30) for k = 1..max_retries, for every call of invoke and of
\* generate_content.
C1_AsClaimed ==
    gw_pc = "raised" =>
        /\ gw_calls = gw_max_retries + 1
        /\ gw_sleeps = [k \in 1..gw_max_retries |-> SpecBackoff(k)]

\* The model calls an Extraction run has made.
ModelCalls == ex_count.generate + ex_count.url_invoke + ex_count.raw_invoke

\* C2 as claimed: when the model call throws, the Extraction node raises
\* only after max_retries + 1 attempts of the model call.
C2_ExtractionRetries ==
    (ex_pc = "raised" /\ ex_error = "model") => ModelCalls = DefaultMaxRetries + 1

\* C3: repair_json_with_llm makes at most max_attempts calls of
\* llm_client.invoke and ends with a result: ok with the parsed object of
\* the first response that validates, and the tagged failure exactly when
\* no attempt's response validated (then after max_attempts calls).
C3_RepairConverges ==
    /\ rp_invokes <= rp_max
    /\ rp_invokes = rp_attempt
    /\ rp_pc \in {"loop", "wait"} => ~rp_everValid /\ ~rp_result.set
    /\ rp_pc = "done" =>
          /\ rp_result.set
          /\ rp_result.ok = rp_everValid
          /\ rp_result.ok =>
                /\ ValidateJson(rp_last).out = "ok"
                /\ rp_result.obj = ValidateJson(rp_last).obj
          /\ ~rp_result.ok => rp_invokes = rp_max

\* C3, witness: garbage on attempts 1 and 2 (one of them an exception), valid
\* JSON on attempt 3 = max_attempts.
C3_Witness ==
    /\ rp_caller = "harness"
    /\ rp_pc = "done"
    /\ rp_result.ok
    /\ rp_max = 3
    /\ rp_invokes = 3

\* C4 as claimed: from the second attempt on, the repair prompt holds the
\* previous attempt's (still invalid) response, not the original raw text.
C4_FeedsPreviousBack ==
    (rp_pc = "wait" /\ rp_attempt >= 2 /\ rp_last.t = "str" /\ Truthy(rp_last))
        => rp_prompt = rp_last

\* A text that wraps the document d in a leading code fence.
Fenced(d) ==
    {<<"FENCE", d, "FENCE">>, <<"FENCE", "json", d, "FENCE">>,
     <<"FENCE", "WS", d, "FENCE">>, <<"FENCE", "json", d>>}

\* C5 as claimed: validate_json never throws, whatever value it is given,
\* and parses a fenced document as if the fence were absent.
C5_ValidateNeverThrows ==
    vj_pc = "done" =>
        /\ vj_out.out \in {"ok", "fail"}
        /\ \A d \in JsonDocs :
              (vj_in.t = "str" /\ vj_in.s \in Fenced(d)) => vj_out = ValidateJson(PyStr(<<d>>))

\* The model's response to the classification prompt was no valid JSON.
FirstResponseInvalid ==
    /\ cl_first # NoOutcome
    /\ cl_content.t # "str" \/ ValidateJson(cl_content).out # "ok"

\* C6 as claimed, in the runs where nothing the model returned could be
\* parsed (classify ends in its `except:` dict): when the response to the
\* classification prompt is not valid JSON, the update has classification_type
\* unmanaged and a non-empty classification_reason.
C6_DefaultsToUnmanaged ==
    (cl_pc = "done" /\ FirstResponseInvalid /\ cl_result = Fallback) =>
        /\ cl_update.classification_type = "unmanaged"
        /\ cl_update.classification_reason # ""

\* C7 as claimed: whatever text the model returns to the classification
\* prompt, execute returns an update and does not raise.
C7_ClassificationNeverRaises ==
    (cl_first # NoOutcome /\ cl_pc \in {"done", "raised"}) =>
        cl_pc = "done" /\ cl_update.set

\* The three input kinds of a run, and "invalid" for every other start state.
InputKind ==
    IF state.input_file_path = "PATH" /\ ~state.is_url /\ state.raw_input = "None"
    THEN "file"
    ELSE IF state.input_file_path = "URL" /\ state.is_url /\ state.raw_input = "None"
    THEN "url"
    ELSE IF state.input_file_path = "None" /\ ~state.is_url /\ state.raw_input = "TEXT"
    THEN "text"
    ELSE "invalid"

\* The errors that come from the world: a missing file, the upload store,
\* the remote URL, the model.
WorldErrors ==
    {"FileNotFoundError", "upload", "RuntimeError: File processing failed",
     "HTTPException: 502 timed out", "HTTPException: URL",
     "HTTPException: Unsupported file type", "model"}

ExEnded == ex_pc \in {"done", "raised"}

\* C8 as claimed: a run in which the world does not fail executes exactly
\* the path of its input kind, once, and neither of the other two.
C8_ExactlyOnePath ==
    (ExEnded /\ ex_error \notin WorldErrors) =>
        /\ InputKind = "file" =>
              ex_count = [NoCount EXCEPT !.upload = 1, !.generate = 1]
        /\ InputKind = "url" =>
              ex_count = [NoCount EXCEPT !.content_message = 1, !.url_invoke = 1]
        /\ InputKind = "text" =>
              ex_count = [NoCount EXCEPT !.raw_invoke = 1]

\* C9 as claimed: for a raw-text input whose model call succeeds, the node
\* completes with extracted_text the model's response, after one text call
\* and no upload.
C9_RawTextCompletes ==
    (ExEnded /\ InputKind = "text" /\ ex_error # "model") =>
        /\ ex_pc = "done"
        /\ ex_update.set
        /\ ex_update.extracted_text \in Narratives
        /\ ex_count = [NoCount EXCEPT !.raw_invoke = 1]

SupportedContentType(ct) ==
    \/ ct.main \in {"text", "image", "video", "audio"}
    \/ ct.main = "application" /\ ct.sub \in DocumentSubTypes

\* C10 as claimed: for a URL of a supported media type the node builds the
\* content message, makes the text call without an upload and completes
\* (unless the model call fails) with no file handle; for an unsupported
\* media type it raises the unsupported-type error without a model call.
C10_UrlPath ==
    (ExEnded /\ InputKind = "url" /\ env.content_type.main # "HEAD failed") =>
        IF SupportedContentType(env.content_type)
        THEN /\ ex_count = [NoCount EXCEPT !.content_message = 1, !.url_invoke = 1]
             /\ \/ ex_error = "model"
                \/ /\ ex_pc = "done"
                   /\ ex_update.extracted_text \in Narratives
                   /\ ex_update.input_file = "None"
        ELSE /\ ex_pc = "raised"
             /\ ex_error = "HTTPException: Unsupported file type"
             /\ ModelCalls = 0

\* The positions of the log that hold the event of `node` of kind `what`.
Positions(node, what) == {i \in 1..Len(wf_log) : wf_log[i] = Event(node, what)}

Happened(node, what) == Positions(node, what) # {}

\* Every event `a` of the log lies before every event `b`.
Before(a, b) ==
    \A i \in Positions(a.node, a.what), j \in Positions(b.node, b.what) : i < j

\* No node but Extraction has started.
OnlyExtractionRan == \A i \in 1..Len(wf_log) : wf_log[i].node = "extraction"

\* The run is over: workflow.invoke has returned or raised.
RunOver == wf_pc \in {"end", "aborted"}

\* The Extraction node was given a local path that does not exist.
LocalFileMissing ==
    state.input_file_path = "PATH" /\ ~state.is_url /\ ~env.exists

\* C11: for a local-file input whose path does not exist, the Extraction node
\* raises FileNotFoundError with no upload and no model call made, and in
\* the workflow the run then aborts with that error: no other node starts
\* and neither experience nor evaluation is written.
C11_MissingFile ==
    /\ (ExEnded /\ LocalFileMissing) =>
          /\ ex_pc = "raised"
          /\ ex_error = "FileNotFoundError"
          /\ ex_count = NoCount
    /\ (wf_pc # "idle" /\ LocalFileMissing /\ Happened("extraction", "start")) =>
          /\ ~Happened("extraction", "return")
          /\ OnlyExtractionRan
          /\ wf_uploads = 0
          /\ wf_pc # "end"
          /\ wf_state.experience = NoExperience
          /\ wf_state.evaluation = "absent"
          /\ RunOver => wf_error = [node |-> "extraction", error |-> "FileNotFoundError"]

\* C11, witness: a run on a missing local file has aborted.
C11_Witness ==
    /\ wf_pc = "aborted"
    /\ LocalFileMissing
    /\ wf_error = [node |-> "extraction", error |-> "FileNotFoundError"]
    /\ wf_log = <<Event("extraction", "start"), Event("extraction", "raise")>>

TimeoutError == "HTTPException: 502 timed out"

FailedError == "RuntimeError: File processing failed"

\* C12: in Extraction's polling loop a pass that sees neither ACTIVE nor
\* FAILED sleeps 2 seconds before the next one, and only while no more than
\* 180 seconds have elapsed; the model is called only after a pass saw
\* ACTIVE; a pass that sees FAILED raises the file-processing error; a pass
\* that sees neither once more than 180 seconds have elapsed raises the
\* timeout error, another kind of error; the model is called in neither case.
C12_UploadPolling ==
    /\ (ex_pc = "poll" /\ ex_polls.seen # "none") =>
          /\ ex_polls.seen = "PROCESSING"
          /\ ex_polls.slept = PollInterval
          /\ ex_elapsed - ex_polls.slept <= PollCeiling
    /\ (ex_pc = "generate" \/ ex_count.generate > 0) =>
          /\ ex_polls.seen = "ACTIVE"
          /\ ex_error \notin {TimeoutError, FailedError}
    /\ ex_error = FailedError =>
          /\ ex_pc = "raised"
          /\ ex_polls.seen = "FAILED"
          /\ ModelCalls = 0
    /\ ex_error = TimeoutError =>
          /\ ex_pc = "raised"
          /\ ex_polls.seen = "PROCESSING"
          /\ ex_elapsed > PollCeiling
          /\ ModelCalls = 0
    /\ (ex_pc = "raised" /\ ex_polls.seen = "PROCESSING") => ex_error \in {TimeoutError, "upload"}
    /\ (ex_pc = "raised" /\ ex_polls.seen = "FAILED") => ex_error = FailedError

\* C12, witness: the handle never became ACTIVE or FAILED and the loop has
\* stopped with the timeout error.
C12_Witness ==
    /\ ex_pc = "raised"
    /\ ex_error = TimeoutError
    /\ ex_polls.seen = "PROCESSING"
    /\ ex_elapsed > PollCeiling

\* C13 as claimed: a run on a local file that reaches END has uploaded the
\* file once, and the state holds the handle Extraction produced.
C13_UploadedOnce ==
    (wf_pc = "end" /\ wf_state.input_file_path = "PATH") =>
        /\ wf_uploads = 1
        /\ wf_state.input_file = "HANDLE"

\* No node has raised.
NoNodeRaised == \A i \in 1..Len(wf_log) : wf_log[i].what # "raise"

\* Node `n` has started once and returned once.
RanOnce(n) ==
    /\ Cardinality(Positions(n, "start")) = 1
    /\ Cardinality(Positions(n, "return")) = 1

\* C14 as claimed: a run in which no node raises starts and ends each of the
\* six nodes exactly once, Extraction before Classification, Classification
\* before BasicInfo and Plan, both before Combine, Combine before Eval, and
\* then reaches END; no other node runs.
C14_NodeOrder ==
    (RunOver /\ NoNodeRaised) =>
        /\ wf_pc = "end"
        /\ \A n \in Nodes : RanOnce(n)
        /\ \A i \in 1..Len(wf_log) : wf_log[i].node \in Nodes
        /\ Before(Event("extraction", "return"), Event("classification", "start"))
        /\ Before(Event("classification", "return"), Event("basic_info_node", "start"))
        /\ Before(Event("classification", "return"), Event("plan", "start"))
        /\ Before(Event("basic_info_node", "return"), Event("combine_node", "start"))
        /\ Before(Event("plan", "return"), Event("combine_node", "start"))
        /\ Before(Event("combine_node", "return"), Event("eval_node", "start"))

\* Both branches have started.
FannedOut == Happened("basic_info_node", "start") /\ Happened("plan", "start")

\* C15 as claimed: Combine starts only after BasicInfo and Plan have both
\* ended, and a run whose branches ran has written experience exactly once
\* when it is over.
C15_JoinThenOnce ==
    /\ Happened("combine_node", "start") =>
          /\ Happened("basic_info_node", "return") /\ Happened("plan", "return")
          /\ Before(Event("basic_info_node", "return"), Event("combine_node", "start"))
          /\ Before(Event("plan", "return"), Event("combine_node", "start"))
    /\ wf_writes <= 1
    /\ (RunOver /\ FannedOut) => wf_writes = 1

\* C16 as claimed: the keys of the update of BasicInfo and the keys of the
\* update of Plan are disjoint.
C16_DisjointKeys ==
    (wf_status["basic_info_node"] = "done" /\ wf_status["plan"] = "done") =>
        DOMAIN wf_pending["basic_info_node"] \cap DOMAIN wf_pending["plan"] = {}

\* C17 as claimed: an exception of BasicInfo or of Plan does not abort the
\* run.
C17_BranchFailureContained ==
    wf_pc = "aborted" => wf_error.node \notin {"basic_info_node", "plan"}

\* C18: once the Extraction node has raised, no other node ever starts, the
\* run does not reach END, and neither experience nor evaluation is written;
\* the run ends with Extraction's exception.
C18_ExtractionAborts ==
    Happened("extraction", "raise") =>
        /\ OnlyExtractionRan
        /\ \A n \in Nodes \ {"extraction"} : wf_status[n] = "idle"
        /\ wf_pc \in {"step", "aborted"}
        /\ wf_state.experience = NoExperience
        /\ wf_state.evaluation = "absent"
        /\ wf_writes = 0
        /\ RunOver => (wf_error.node = "extraction" /\ wf_error.error = wf_failed["extraction"])

\* C18, witness: the upload timed out and the run has aborted.
C18_Witness ==
    /\ wf_pc = "aborted"
    /\ wf_error = [node |-> "extraction", error |-> TimeoutError]
    /\ Happened("extraction", "raise")

\* The inputs of a call of combine_node with `key` given value v.
With(input, key, v) == [input EXCEPT ![key] = v]

\* combine_node for the inputs `input`.
CombineOf(input) ==
    Combine(input.basic_info, input.travel_plan, input.tags_info,
            input.classification_type)

\* C19: for each of basic_info, travel_plan and tags_info, combine_node
\* builds the same experience whether the input is absent (None) or an empty
\* dict, whatever the other inputs are, and raises in neither case.
C19_AbsentIsEmpty ==
    cb_pc = "done" =>
        \A key \in {"basic_info", "travel_plan", "tags_info"} :
            cb_in[key] \in {"None", "EMPTY"} =>
                /\ cb_out = CombineOf(With(cb_in, key, "None"))
                /\ cb_out = CombineOf(With(cb_in, key, "EMPTY"))
                /\ ~cb_out.raised

\* C19, witness: combine_node was given an empty dict as travel_plan beside
\* a basic_info and a tags_info, and built the experience without a plan.
C19_Witness ==
    /\ cb_pc = "done"
    /\ cb_in.basic_info = "MODEL"
    /\ cb_in.travel_plan = "EMPTY"
    /\ cb_in.tags_info = "MODEL"
    /\ ~cb_out.raised
    /\ cb_out.keys = BasicInfoFields \cup TagsFields \cup {"plan_type"}

\* C20 as claimed, for the structured calls of BasicInfo and Plan: a run is
\* never aborted because the model's output did not fit the schema.
C20_ParseNeverAborts ==
    wf_pc = "aborted" => wf_error.error # "parse"

C22_LoopTerminates ==
    /\ va_pc = "done" =>
          /\ va_update.validation_attempts = va_read + 1
          /\ va_update.next = "extraction" => va_read < va_cap
          /\ va_cap = 0 => va_update.next = "classification"
    /\ va_runs <= va_cap + 1
    /\ (va_runs >= 1 /\ va_cap = 0) => va_runs = 1

\* C22, witness: with the cap at MaxCap the model never validated the text,
\* Extraction ran MaxCap + 1 times and the loop was left for Classification.
C22_Witness ==
    /\ va_pc = "classification"
    /\ va_cap = MaxCap
    /\ va_runs = MaxCap + 1
    /\ va_read = MaxCap

\* C28 as claimed: Validation writes validated = true only when the model's
\* result has has_destination and is_validated both true.
C28_ValidatedNeedsBoth ==
    (va_pc = "done" /\ va_update.validated) =>
        (va_result.has_destination /\ va_result.is_validated)

\* C29 as claimed: when validation fails with the count at or above the cap,
\* next is "classification" if a destination is present, and otherwise the
\* update does not route to Classification (nor back to Extraction).
C29_NoDestinationTerminates ==
    (/\ va_pc = "done"
     /\ ~(va_result.has_destination /\ va_result.is_validated)
     /\ va_read >= va_cap) =>
        IF va_result.has_destination
        THEN va_update.next = "classification"
        ELSE va_update.next \notin {"classification", "extraction"}

\* C30 as claimed: in every update of Validation validation_prompt is
\* non-empty only with next = "extraction", and empty with next =
\* "classification".
C30_PromptOnlyOnRetry ==
    va_pc = "done" =>
        /\ va_update.validation_prompt # "" => va_update.next = "extraction"
        /\ va_update.next = "classification" => va_update.validation_prompt = ""

\* C23 as claimed: in the tags_info BasicInfo returns, every category, type
\* and subtype is in the taxonomy, experienceTags has 8 entries and the
\* secondary experienceTags has 5.
C23_TagsWithinTaxonomy ==
    (bi_pc = "done" /\ bi_update.tags_info = "MODEL") =>
        /\ bi_update.tags.in_taxonomy
        /\ bi_update.tags.primary = PrimaryTagCount
        /\ bi_update.tags.secondary = SecondaryTagCount

\* C24 as claimed: the classification_type Classification returns is
\* "managed" or "unmanaged" whatever the model answered, and in a run the
\* state holds it when Combine starts.
C24_TypeIsEnum ==
    /\ cl_pc = "done" => cl_update.classification_type \in {"managed", "unmanaged"}
    /\ Happened("combine_node", "start") =>
          wf_state.classification_type \in {"managed", "unmanaged"}

\* The state after the writes of update u.
Merged(st, u) == ApplyUpdate(st, wf_schema, u, DOMAIN u)

\* C25: once BasicInfo and Plan have both returned, writing BasicInfo's
\* update and then Plan's gives the state that writing Plan's and then
\* BasicInfo's gives; and while a branch runs, the state it reads holds no
\* write of the other branch.
C25_MergeCommutes ==
    /\ (wf_status["basic_info_node"] = "done" /\ wf_status["plan"] = "done") =>
          Merged(Merged(wf_state, wf_pending["basic_info_node"]), wf_pending["plan"])
            = Merged(Merged(wf_state, wf_pending["plan"]), wf_pending["basic_info_node"])
    /\ (wf_pc # "idle" /\ bi_pc # "idle") =>
          /\ wf_state.travel_plan = "absent"
          /\ wf_state.next = "absent"
    /\ (wf_pc # "idle" /\ pl_pc # "idle") =>
          /\ wf_state.basic_info = "absent"
          /\ wf_state.tags_info = "absent"
          /\ wf_state.next = "absent"

\* C25, witness: Plan returned its plan before BasicInfo returned its tags,
\* and both updates wait to be written.
C25_Witness ==
    /\ wf_status["basic_info_node"] = "done"
    /\ wf_status["plan"] = "done"
    /\ Before(Event("plan", "return"), Event("basic_info_node", "return"))
    /\ wf_pending["plan"] = [travel_plan |-> "MODEL"]
    /\ "tags_info" \in DOMAIN wf_pending["basic_info_node"]
    /\ Merged(Merged(wf_state, wf_pending["plan"]), wf_pending["basic_info_node"]).tags_info
         = "MODEL"

\* The fields of the inputs of combine_node that are instances.
PresentFields(input) ==
    (IF input.basic_info = "MODEL" THEN BasicInfoFields ELSE {})
        \cup (IF input.travel_plan = "MODEL" THEN TravelPlanFields ELSE {})
        \cup (IF input.tags_info = "MODEL" THEN TagsFields ELSE {})

\* C26: combine_node never raises; the experience holds the fields of the
\* inputs that are present, none of an input that is absent, and plan_type,
\* which is the classification_type of the state; and the step that runs it
\* makes no call of a model.
C26_CombineIsPure ==
    /\ [](cb_pc = "done" =>
            /\ ~cb_out.raised
            /\ cb_out.keys = PresentFields(cb_in) \cup {"plan_type"}
            /\ cb_out.plan_type = cb_in.classification_type)
    /\ [][(cb_pc = "idle" /\ cb_pc' = "done") =>
            UNCHANGED <<gwVars, rpVars, clVars, exVars, biVars, plVars, evVars>>]_vars

\* C26, witness: combine_node ran on a state with tags_info and a
\* classification_type but neither basic_info nor travel_plan.
C26_Witness ==
    /\ cb_pc = "done"
    /\ cb_in.basic_info = "None"
    /\ cb_in.travel_plan = "None"
    /\ cb_in.tags_info = "MODEL"
    /\ cb_out.keys = TagsFields \cup {"plan_type"}
    /\ cb_out.plan_type = "managed"

\* C27 as claimed: the experience built from a travel plan holds the plan
\* under the key travel_plan.
C27_PlanUnderTravelPlan ==
    (cb_pc = "done" /\ cb_in.travel_plan = "MODEL") => "travel_plan" \in cb_out.keys

\* The calls of agent_executor.invoke among the calls the node made.
AgentCalls == SelectSeq(bi_calls, LAMBDA c : c = "agent")

Prefix(s, t) == Len(s) <= Len(t) /\ s = SubSeq(t, 1, Len(s))

\* C31: the node calls the agent at most twice, the second time exactly when
\* the final message of the first call is empty or white space; the last
\* final message, empty or not, then goes to exactly one structured call for
\* the tags; and the structured call for the basic information is over
\* before the first call of the agent.
C31_AskTwiceAtMost ==
    /\ Len(AgentCalls) <= 2
    /\ \/ Prefix(bi_calls, <<"basic", "agent", "tags">>)
       \/ Prefix(bi_calls, <<"basic", "agent", "agent", "tags">>)
    /\ Len(AgentCalls) = 2 => (Len(bi_final) >= 1 /\ Blank(bi_final[1]))
    /\ (bi_pc = "tags" \/ Len(SelectSeq(bi_calls, LAMBDA c : c = "tags")) > 0) =>
            /\ Len(bi_final) = Len(AgentCalls)
            /\ Blank(bi_final[1]) <=> Len(AgentCalls) = 2
    /\ (bi_pc = "done" /\ bi_calls # <<>>) =>
            Len(SelectSeq(bi_calls, LAMBDA c : c = "tags")) = 1

\* C31, witness: the first final message was white space, the second was
\* empty, and the tags were built from it.
C31_Witness ==
    /\ bi_pc = "done"
    /\ bi_final = <<" ", "">>
    /\ bi_calls = <<"basic", "agent", "agent", "tags">>

\* The exceptions raised inside evaluate_from_file and evaluate_from_text: a
\* missing file, a failure of files.upload or files.get, the FAILED state,
\* the timeout of the polling loop, a failure of the call of the model.
EvalErrors ==
    {"FileNotFoundError", "upload", "RuntimeError: File processing failed",
     "HTTPException: 502 timed out", "model"}

\* The responses json.loads cannot parse, and the response without a text.
Unparseable ==
    {PyStr(<<"PROSE">>), PyStr(<<"OBJ_M", "FENCE">>), PyStr(<<>>), PyNone}

\* The evaluation failed: an exception was raised or the response of the
\* model cannot be parsed.
EvalFailed == ev_cause.error \in EvalErrors \/ ev_cause.content \in Unparseable

\* C32: the Eval node never raises; every failure inside the evaluation
\* gives the fallback, whose four scores are 0, whose structure_compliance is
\* Fail and whose validation_reason is not empty; and the node writes the
\* key evaluation alone and leaves experience as it was.
C32_EvalNeverRaises ==
    /\ [](/\ ev_update # "raised"
          /\ wf_status["eval_node"] # "raised"
          /\ wf_error.node # "eval_node"
          /\ ev_cause.error \in EvalErrors \cup {"none"}
          /\ (ev_pc = "done" /\ EvalFailed) =>
                /\ ev_update = EvalFallback
                /\ ErrorFallback.hallucination = 0
                /\ ErrorFallback.accuracy = 0
                /\ ErrorFallback.conciseness = 0
                /\ ErrorFallback.overall_score = 0
                /\ ErrorFallback.structure_compliance = "Fail"
                /\ ErrorFallback.validation_reason # ""
          /\ wf_status["eval_node"] = "done" =>
                DOMAIN wf_pending["eval_node"] = {"evaluation"})
    /\ [][(wf_status["eval_node"] # "idle" \/ ev_pc # "idle") =>
            wf_state'.experience = wf_state.experience]_vars

\* C32, witness: the polling loop of evaluate_from_file timed out, and the
\* node returned the fallback as its evaluation.
C32_Witness ==
    /\ ev_pc = "done"
    /\ ev_cause.error = "HTTPException: 502 timed out"
    /\ ev_elapsed > EvalPollCeiling
    /\ ev_update = EvalFallback
    /\ wf_state.experience.set

\* The errors of the world inside Eval: the upload store and the model.
EvalWorldErrors == EvalErrors \ {"FileNotFoundError"}

\* C33 as claimed: a run of Eval on an experience, in which the world does
\* not fail and a local file exists, makes exactly one call of a model: a
\* multimodal call when the state holds a handle, a text call when it holds
\* none, whose evaluation then comes from the model.
C33_OneCallByHandle ==
    (/\ ev_pc = "done"
     /\ ~NoExperienceData(wf_state.experience)
     /\ ev_cause.error \notin EvalWorldErrors
     /\ ~(wf_state.input_file_path = "PATH" /\ ~env.exists)) =>
        /\ Len(ev_calls) = 1
        /\ ev_calls[1] = IF Get(wf_state.input_file) # "None" THEN "multimodal" ELSE "text"
        /\ ev_cause.error = "none"

\* C34 as claimed: no update of a node holds session_id, and none but that of
\* Extraction holds input_file; from the start of a run to its end the state
\* holds the session_id start_agentic_process made, and once Extraction has
\* uploaded a local file the state holds its handle while the later nodes run.
C34_SessionAndHandleKept ==
    /\ \A n \in Nodes : "session_id" \notin DOMAIN wf_pending[n]
    /\ \A n \in Nodes \ {"extraction"} : "input_file" \notin DOMAIN wf_pending[n]
    /\ wf_pc # "idle" => wf_state.session_id = "sid"
    /\ (Happened("classification", "start") /\ wf_state.input_file_path = "PATH") =>
            wf_state.input_file = "HANDLE"

\* C35 as claimed: execute, given a state that has both a locator and a raw
\* text, or neither, or an is_url that does not fit the locator, raises at
\* once: it makes no upload and no call of a model, and returns nothing.
C35_ExclusivityRejected ==
    (ex_pc \notin {"idle", "ready"} /\ InputKind = "invalid") =>
        /\ ex_pc = "raised"
        /\ ex_count = NoCount

\* C36 as claimed: while the workflow of a task runs, the file at its
\* temp_file_path is the one the task saved: no other task has written over
\* it or removed it.
C36_TempFileIsOwn ==
    \A t \in Tasks : mf_pc[t] \in {"thread", "eval"} => Found(t) = "own"

\* C37 as claimed: in a run whose extracted_text is empty, BasicInfo and
\* Plan call no model and write none of basic_info, tags_info and
\* travel_plan; and the run goes on through combine_node, whose experience
\* holds plan_type alone, and through Eval to END: no exception ends it.
C37_EmptyTextRunsThrough ==
    (FannedOut /\ ~Truthy(wf_state.extracted_text)) =>
        /\ bi_calls = <<>>
        /\ bi_pc \in {"idle", "done"}
        /\ pl_pc \in {"idle", "done"}
        /\ \A n \in {"basic_info_node", "plan"} :
              DOMAIN wf_pending[n] \cap {"basic_info", "tags_info", "travel_plan"} = {}
        /\ RunOver =>
              /\ wf_pc = "end"
              /\ wf_error = NoError
              /\ wf_state.experience.keys = {"plan_type"}

\* The loops of a run are bounded: the gateway makes at most max_retries + 1
\* attempts, the repair at most max_attempts, the agent of the tags is called
\* at most twice, and the polling loops of Extraction and of Eval end within
\* a pass of the ceiling.
LoopsBounded ==
    /\ gw_attempt <= gw_max_retries + 1
    /\ rp_attempt <= rp_max \/ rp_attempt = 0
    /\ bi_turns <= 2
    /\ ex_elapsed <= PollCeiling + PollInterval + MaxLatency
    /\ ev_elapsed <= EvalPollCeiling + EvalPollInterval + MaxLatency

\* C38 as claimed: the loops of a run are bounded, and a run that is over
\* has reached END after Eval or was ended by the exception of a node.
C38_EndsAtEndOrNodeError ==
    /\ LoopsBounded
    /\ RunOver =>
          \/ wf_pc = "end" /\ Happened("eval_node", "return")
          \/ wf_pc = "aborted" /\ wf_error.node \in Nodes

\* Every behaviour in which a step is taken whenever one can be taken ends:
\* from some state on nothing changes, the graph of the states having no
\* cycle.  TLC takes about eleven minutes for Terminates under FairSpec.
FairSpec == Spec /\ WF_vars(Next)

Terminates == <>[][FALSE]_vars

====
